---- MODULE Spec2Model ----
(***************************************************************************)
(* Model of the lexical store and the lemma cascade of ipa_transcription:  *)
(*   WiktionaryParser (src/wiktionary_parser.py) and                        *)
(*   LanguageParser   (src/language_parser.py).                             *)
(*                                                                         *)
(* Words and definition texts are sequences of one-character strings, so   *)
(* that lower(), title(), the punctuation test and the alphabet test are   *)
(* computed character by character as Python computes them.  A dict is a   *)
(* function whose DOMAIN is its key set.  An optional value (Python None   *)
(* or x) is a sequence of length 0 or 1.  Every word is a unicode object, *)
(* which unicodize (line 809) returns as it is.  Content lists handed to   *)
(* edit_wiktionary_entry hold words and go to the headings that hold       *)
(* words (Etymology, Pronunciation).                                       *)
(***************************************************************************)
EXTENDS Integers, Sequences, FiniteSets, TLC

VARIABLES
    wiktionary_entries,   \* WiktionaryParser.wiktionary_entries: word -> language -> heading -> content
    web,                  \* the Wiktionary site: word -> language -> heading -> content (page-fetch collaborator)
    lexicon,              \* LanguageParser.LEXICA[language], a set of words
    op,                   \* the call made last: its name and arguments
    pre,                  \* wiktionary_entries before that call
    out,                  \* what that call returned or raised, and the steps it took
    morphemes,            \* all_word_morphemes: the local OrderedSet morphemes, in insertion order
    todo,                 \* all_word_morphemes: the local set todo
    stack,                \* recursive_all_word_morphemes: the frames of the calls that have not returned
    table                 \* WiktionaryTable.table: the rows of the HTML table it was built on

vars == <<wiktionary_entries, web, lexicon, op, pre, out, morphemes, todo, stack, table>>

----------------------------------------------------------------------------
(* Bounds of the model *)

MaxContentLen == 2      \* longest content list handed to edit_wiktionary_entry
MaxSpan == 3            \* largest rowspan and colspan of a cell
RecursionLimit == 4     \* sys.getrecursionlimit(): the deepest stack of calls

----------------------------------------------------------------------------
(* Vocabulary *)

w_cat     == <<"c","a","t">>
w_felinus == <<"f","e","l","i","n","u","s">>
w_catus   == <<"c","a","t","u","s">>
w_driven  == <<"d","r","i","v","e","n">>
w_Driven  == <<"D","r","i","v","e","n">>
w_drive   == <<"d","r","i","v","e">>
w_un      == <<"u","n","-">>
w_empty   == <<>>
t_ppof    == <<"p","p"," ","o","f"," ","d","r","i","v","e">>   \* a definition text, "pp of drive"

None == <<>>            \* Python None, for an optional value
Some(x) == <<x>>        \* a value that is not None
NoneArg == "None"       \* None passed for a str argument

self_language == "English"      \* LanguageParser.language
Languages == {"English", "Polish"}

PARTS_OF_SPEECH ==
    {"Noun", "Verb", "Adjective", "Adverb", "Preposition",
     "Conjunction", "Interjection", "Morpheme", "Pronoun",
     "Phrase", "Numeral", "Particle", "Article", "Participle",
     "Prefix", "Suffix", "Circumfix", "Interfix", "Infix"}

HEADER_NAMES == PARTS_OF_SPEECH \cup {"Pronunciation", "Etymology", "Declension"}

\* string.punctuation (the grave accent, which no word of the vocabulary
\* contains, cannot be written in a TLA+ string and is left out)
punctuation ==
    {"!", "\"", "#", "$", "%", "&", "'", "(", ")", "*", "+", ",", "-", ".",
     "/", ":", ";", "<", "=", ">", "?", "@", "[", "\\", "]", "^", "_",
     "{", "|", "}", "~"}

UpperLetters == <<"A","B","C","D","E","F","G","H","I","J","K","L","M",
                  "N","O","P","Q","R","S","T","U","V","W","X","Y","Z">>
LowerLetters == <<"a","b","c","d","e","f","g","h","i","j","k","l","m",
                  "n","o","p","q","r","s","t","u","v","w","x","y","z">>

----------------------------------------------------------------------------
(* Python helpers *)

Range(s) == {s[i] : i \in 1..Len(s)}

\* d.get(k) is not None / k in d
Has(d, k) == k \in DOMAIN d

\* d[k] = v
Put(d, k, v) == [x \in (DOMAIN d) \cup {k} |-> IF x = k THEN v ELSE d[x]]

\* d.setdefault(k, v), the dict afterwards
SetDefault(d, k, v) == IF Has(d, k) THEN d ELSE Put(d, k, v)

\* d.update(e), the dict afterwards
Update(d, e) == [x \in (DOMAIN d) \cup (DOMAIN e) |-> IF x \in DOMAIN e THEN e[x] ELSE d[x]]

EmptyDict == <<>>

IsLetter(c) == \E i \in 1..26 : c = UpperLetters[i] \/ c = LowerLetters[i]

LowerChar(c) == IF \E i \in 1..26 : c = UpperLetters[i]
                THEN LowerLetters[CHOOSE i \in 1..26 : c = UpperLetters[i]]
                ELSE c

UpperChar(c) == IF \E i \in 1..26 : c = LowerLetters[i]
                THEN UpperLetters[CHOOSE i \in 1..26 : c = LowerLetters[i]]
                ELSE c

\* unicode.lower()
Lower(word) == [i \in 1..Len(word) |-> LowerChar(word[i])]

\* unicode.title(): a letter after a non-letter is upper-cased, any other letter lower-cased
Title(word) == [i \in 1..Len(word) |->
                  IF i > 1 /\ IsLetter(word[i-1]) THEN LowerChar(word[i]) ELSE UpperChar(word[i])]

\* OrderedSet(items).items(): the items in first-seen order, each once
RECURSIVE OrderedSet(_)
OrderedSet(items) ==
    IF items = <<>> THEN <<>>
    ELSE LET front == OrderedSet(SubSeq(items, 1, Len(items) - 1))
             last  == items[Len(items)]
         IN  IF last \in Range(front) THEN front ELSE Append(front, last)

\* OrderedSet.update(items) on an OrderedSet that holds `seen`: the items not
\* yet held are appended in first-seen order
OrderedSetUpdate(seen, items) ==
    seen \o OrderedSet(SelectSeq(items, LAMBDA item : item \notin Range(seen)))

verify_language(language) == IF language = NoneArg THEN self_language ELSE language

contains_punct(word) == \E char \in punctuation : char \in Range(word)

IsNone(x) == Len(x) = 0

\* the keys of dict d in the iteration order `order` (a sequence of all headings)
Keys(d, order) == SelectSeq(order, LAMBDA h : h \in DOMAIN d)

\* section[:len(heading)] == heading, on the headings of the model
ProperPrefixes == {<<"Etymology 1", "Etymology">>}
StartsWith(section, heading) == section = heading \/ <<section, heading>> \in ProperPrefixes

\* the result of a call: the store afterwards, the value returned (an optional
\* value), the exception raised ("none" when it returned), the number of
\* add_wiktionary_entry calls made
Res(s, r, e, n) == [s |-> s, r |-> r, e |-> e, n |-> n]

\* the fields of Res without the store
Outcome(res) == [r |-> res.r, e |-> res.e, n |-> res.n]

----------------------------------------------------------------------------
(* WiktionaryParser: the store *)

entry_word(S, word, language) ==
    LET lang    == verify_language(language)
        nuwords == <<word, Lower(word), Title(word)>>
        hits    == {i \in 1..3 : Has(S, nuwords[i]) /\ Has(S[nuwords[i]], lang)}
    IN  IF hits = {} THEN word
        ELSE nuwords[CHOOSE i \in hits : \A j \in hits : i <= j]

lookup_wiktionary_entry(S, word, language) ==
    LET lang == verify_language(language)
    IN  IF Has(S, word) /\ Has(S[word], lang) THEN Some(S[word][lang]) ELSE None

lookup_wiktionary_subentry(S, word, language, heading) ==
    IF ~Has(S, word) THEN None
    ELSE IF language = NoneArg THEN Some(S[word])
    ELSE IF ~Has(S[word], language) THEN None
    ELSE IF heading = NoneArg THEN Some(S[word][language])
    ELSE IF ~Has(S[word][language], heading) THEN None
    ELSE Some(S[word][language][heading])

\* WiktionaryPage(word, language).entries: the page of the first spelling of
\* word that has a section in this language, restricted to this language
WiktionaryPage(W, word, language) ==
    LET nuwords == <<word, Lower(word), Title(word)>>
        valid   == {i \in 1..3 : Has(W, nuwords[i]) /\ Has(W[nuwords[i]], language)}
    IN  IF valid = {} THEN EmptyDict
        ELSE LET page == W[nuwords[CHOOSE i \in valid : \A j \in valid : i <= j]][language]
             IN  IF DOMAIN page = {} THEN EmptyDict ELSE Put(EmptyDict, language, page)

add_wiktionary_entry(S, W, word, language) ==
    LET lang    == verify_language(language)
        entries == WiktionaryPage(W, word, lang)
        nuword  == entry_word(S, word, lang)
        S1      == SetDefault(S, nuword, EmptyDict)
        S2      == Put(S1, nuword, Update(S1[nuword], entries))
    IN  Res(S2, Some(IF Has(entries, lang) THEN entries[lang] ELSE entries), "none", 1)

\* edit_wiktionary_entry that appends the content without removing duplicates
edit_wiktionary_entry_append(S, word, language, heading, content) ==
    LET lang  == verify_language(language)
        entry == lookup_wiktionary_subentry(S, word, lang, NoneArg)
    IN  IF IsNone(entry) THEN Res(S, None, "AttributeError", 0)
        ELSE LET S1  == Put(S, word, Put(S[word], lang, SetDefault(S[word][lang], heading, <<>>)))
                 old == S1[word][lang][heading]
             IN  Res(Put(S1, word, Put(S1[word], lang, Put(S1[word][lang], heading, old \o content))),
                     None, "none", 0)

\* edit_wiktionary_entry that puts the new content before the old
edit_wiktionary_entry_prepend(S, word, language, heading, content) ==
    LET lang  == verify_language(language)
        entry == lookup_wiktionary_subentry(S, word, lang, NoneArg)
    IN  IF IsNone(entry) THEN Res(S, None, "AttributeError", 0)
        ELSE LET S1  == Put(S, word, Put(S[word], lang, SetDefault(S[word][lang], heading, <<>>)))
                 old == S1[word][lang][heading]
             IN  Res(Put(S1, word, Put(S1[word], lang,
                                       Put(S1[word][lang], heading, OrderedSet(content \o old)))),
                     None, "none", 0)

\* edit_wiktionary_entry that replaces the old content by the new
edit_wiktionary_entry_overwrite(S, word, language, heading, content) ==
    LET lang  == verify_language(language)
        entry == lookup_wiktionary_subentry(S, word, lang, NoneArg)
    IN  IF IsNone(entry) THEN Res(S, None, "AttributeError", 0)
        ELSE LET S1  == Put(S, word, Put(S[word], lang, SetDefault(S[word][lang], heading, <<>>)))
             IN  Res(Put(S1, word, Put(S1[word], lang,
                                       Put(S1[word][lang], heading, OrderedSet(content)))),
                     None, "none", 0)

edit_wiktionary_entry(S, word, language, heading, content) ==
    LET lang  == verify_language(language)
        entry == lookup_wiktionary_subentry(S, word, lang, NoneArg)
    IN  IF IsNone(entry) THEN Res(S, None, "AttributeError", 0)
        ELSE LET S1  == Put(S, word, Put(S[word], lang, SetDefault(S[word][lang], heading, <<>>)))
                 old == S1[word][lang][heading]
                 new == OrderedSet(old \o content)
             IN  Res(Put(S1, word, Put(S1[word], lang, Put(S1[word][lang], heading, new))),
                     None, "none", 0)

find_wiktionary_entry(S, W, word, language) ==
    LET entry == lookup_wiktionary_entry(S, word, language)
    IN  IF ~IsNone(entry) THEN Res(S, entry, "none", 0)
        ELSE LET raw == IF Has(S, word) /\ Has(S[word], language)
                        THEN Some(S[word][language]) ELSE None
             IN  IF IsNone(raw) /\ ~contains_punct(word)
                 THEN add_wiktionary_entry(S, W, word, language)
                 ELSE Res(S, raw, "none", 0)

\* the first section, in iteration order, whose name starts with heading
PrefixSection(entry, heading, order) ==
    LET hits == SelectSeq(Keys(entry, order), LAMBDA section : StartsWith(section, heading))
    IN  IF hits = <<>> THEN None ELSE Some(entry[Head(hits)])

\* lines 363-377, on the entry f that find_wiktionary_entry returned
subentry(f, language, heading, order) ==
    IF language = NoneArg \/ heading = NoneArg THEN f
    ELSE IF IsNone(f.r) THEN Res(f.s, None, "AttributeError", f.n)
    ELSE IF Has(f.r[1], heading) THEN Res(f.s, Some(f.r[1][heading]), "none", f.n)
    ELSE Res(f.s, PrefixSection(f.r[1], heading, order), "none", f.n)

find_wiktionary_subentry(S, W, word, language, heading, order) ==
    IF contains_punct(word) THEN Res(S, None, "none", 0)
    ELSE subentry(find_wiktionary_entry(S, W, word, language), language, heading, order)

----------------------------------------------------------------------------
(* WiktionaryParser: head words and stem words *)

\* a part-of-speech entry is a list of pairs <<definition, lemma or None>>

\* Stems that does not skip the first pair
Stems_first_pair_too(pos_entries) ==
    LET rest == SelectSeq(pos_entries, LAMBDA pos_entry : ~IsNone(pos_entry[2]))
    IN  [i \in 1..Len(rest) |-> rest[i][2][1]]

\* [pos_entry[1] for pos_entry in pos_entries[1:] if pos_entry[1] is not None]
Stems(pos_entries) ==
    LET rest == SelectSeq(Tail(pos_entries), LAMBDA pos_entry : ~IsNone(pos_entry[2]))
    IN  [i \in 1..Len(rest) |-> rest[i][2][1]]

RECURSIVE StemwordsOver(_, _, _)
StemwordsOver(lang_entries, poses, headings) ==
    IF headings = <<>> THEN <<>>
    ELSE LET heading == Head(headings)
             stems   == IF heading \in poses /\ lang_entries[heading] # <<>>
                        THEN Stems(lang_entries[heading]) ELSE <<>>
         IN  stems \o StemwordsOver(lang_entries, poses, Tail(headings))

\* Headword that takes the lemma of the first pair, pos_entry[0][1]
Headword_second_element(pos_entry) ==
    IF pos_entry = <<>> \/ IsNone(pos_entry[1][2]) THEN <<>> ELSE <<pos_entry[1][2][1]>>

\* pos_entry[0][0] of one heading: IndexError on an empty entry skips the heading
Headword(pos_entry) == IF pos_entry = <<>> THEN <<>> ELSE <<pos_entry[1][1]>>

RECURSIVE HeadwordsOver(_, _, _)
HeadwordsOver(lang_entries, poses, headings) ==
    IF headings = <<>> THEN <<>>
    ELSE LET heading == Head(headings)
             heads   == IF heading \in poses THEN Headword(lang_entries[heading]) ELSE <<>>
         IN  heads \o HeadwordsOver(lang_entries, poses, Tail(headings))

Poses(poses) == IF IsNone(poses) THEN PARTS_OF_SPEECH ELSE poses[1]

\* lines 455-467, on the entry f that find_wiktionary_entry returned
stemwords_of(f, poses, order) ==
    IF IsNone(f.r) THEN Res(f.s, None, "none", f.n)
    ELSE Res(f.s, Some(StemwordsOver(f.r[1], Poses(poses), Keys(f.r[1], order))), "none", f.n)

find_stemwords(S, W, word, language, poses, order) ==
    stemwords_of(find_wiktionary_entry(S, W, word, verify_language(language)), poses, order)

\* lines 417-428, on the entry f that find_wiktionary_entry returned
headwords_of(f, poses, order) ==
    IF IsNone(f.r) THEN Res(f.s, None, "TypeError", f.n)
    ELSE Res(f.s, Some(HeadwordsOver(f.r[1], Poses(poses), Keys(f.r[1], order))), "none", f.n)

find_headwords(S, W, word, language, poses, order) ==
    headwords_of(find_wiktionary_entry(S, W, word, verify_language(language)), poses, order)

----------------------------------------------------------------------------
(* LanguageParser: the language-membership check *)

Letters == Range(UpperLetters) \cup Range(LowerLetters)

\* LanguageParser.alphabets[language], as init_alphabet builds it: every
\* letter of the language's index page in both cases
alphabets(language) ==
    IF language = "Polish" THEN Letters \ {"q", "Q", "v", "V", "x", "X"} ELSE Letters

find_alphabet(language) == alphabets(verify_language(language))

in_lexicon(LEXICA, word, language) == word \in LEXICA[language] \/ LEXICA[language] = {}

\* verify_word that leaves out the lexicon
verify_word_alphabet_only(LEXICA, word, language) ==
    Range(word) \ find_alphabet(verify_language(language)) = {}

verify_word(LEXICA, word, language) ==
    LET lang == verify_language(language)
    IN  Range(word) \ find_alphabet(lang) = {} /\ in_lexicon(LEXICA, word, lang)

----------------------------------------------------------------------------
(* LanguageParser: the lemma cascade *)

lookup_word_inflections(S, word, language) ==
    IF Has(S, word) /\ Has(S[word], language) /\ Has(S[word][language], "Declension")
    THEN Some(S[word][language]["Declension"]) ELSE None

find_word_inflections(S, W, word, language, order) ==
    find_wiktionary_subentry(S, W, word, language, "Declension", order)

\* the result of word_lemmas: as Res, with the branch of the cascade that
\* supplied the candidates, what find_stemwords and find_headwords returned
\* (None when not called), and the candidates before the membership filter
Lem(s, r, e, n, branch, stemwords, headwords, lemmas) ==
    [s |-> s, r |-> r, e |-> e, n |-> n, branch |-> branch,
     stemwords |-> stemwords, headwords |-> headwords, lemmas |-> lemmas]

Filtered(LEXICA, lemmas, language) ==
    SelectSeq(lemmas, LAMBDA lemma : verify_word(LEXICA, lemma, language))

\* lines 414-415: the head words are the candidates
after_headwords(stem, head) ==
    IF head.e # "none"
    THEN Lem(head.s, None, head.e, stem.n + head.n, "headwords", stem.r, None, <<>>)
    ELSE Lem(head.s, None, "none", stem.n + head.n, "headwords", stem.r, head.r,
             OrderedSet(head.r[1]))

\* after_stemwords that collects the head words whatever the stem words are
after_stemwords_always_heads(stem, W, word, language, poses, order) ==
    IF IsNone(stem.r)
    THEN Lem(stem.s, None, "TypeError", stem.n, "stemwords", None, None, <<>>)
    ELSE LET with_heads == after_headwords(stem, find_headwords(stem.s, W, word, language, poses, order))
         IN  IF with_heads.e # "none" THEN with_heads
             ELSE [with_heads EXCEPT !.lemmas = OrderedSet(stem.r[1] \o with_heads.lemmas)]

\* lines 411-415: the stem words are the candidates, or the head words when
\* there is no stem word; stem is what find_stemwords returned
after_stemwords(stem, W, word, language, poses, order) ==
    IF IsNone(stem.r)
    THEN Lem(stem.s, None, "TypeError", stem.n, "stemwords", None, None, <<>>)
    ELSE IF Len(OrderedSet(stem.r[1])) # 0
    THEN Lem(stem.s, None, "none", stem.n, "stemwords", stem.r, None, OrderedSet(stem.r[1]))
    ELSE after_headwords(stem, find_headwords(stem.s, W, word, language, poses, order))

\* lines 410-415
stem_head_branch(S, W, word, language, poses, order) ==
    after_stemwords(find_stemwords(S, W, word, language, poses, order),
                    W, word, language, poses, order)

\* the fetches made before a branch added to those of the branch
AddFetches(n, found) == [found EXCEPT !.n = n + found.n]

\* lines 407-415: the word itself when a Declension was found for it; etym is
\* what find_word_inflections returned
after_inflections(etym, W, word, language, poses, order) ==
    IF etym.e # "none"
    THEN Lem(etym.s, None, etym.e, etym.n, "inflections", None, None, <<>>)
    ELSE IF ~IsNone(etym.r)
    THEN Lem(etym.s, None, "none", etym.n, "inflections", None, None, <<word>>)
    ELSE AddFetches(etym.n, stem_head_branch(etym.s, W, word, language, poses, order))

\* lines 406-415
inflections_branch(S, W, word, language, poses, order) ==
    after_inflections(find_word_inflections(S, W, word, language, order),
                      W, word, language, poses, order)

\* the candidates of a branch preceded by the word
WithWord(word, found) ==
    IF found.e # "none" THEN found
    ELSE [found EXCEPT !.branch = "declension", !.lemmas = OrderedSet(<<word>> \o found.lemmas)]

\* cascade that goes on to the stem words after the Declension branch
cascade_falls_through(S, W, word, language, poses, order) ==
    IF ~IsNone(lookup_word_inflections(S, word, language))
    THEN WithWord(word, stem_head_branch(S, W, word, language, poses, order))
    ELSE inflections_branch(S, W, word, language, poses, order)

\* lines 402-415: the word itself when it has a recorded Declension
cascade(S, W, word, language, poses, order) ==
    IF ~IsNone(lookup_word_inflections(S, word, language))
    THEN Lem(S, None, "none", 0, "declension", None, None, <<word>>)
    ELSE inflections_branch(S, W, word, language, poses, order)

\* line 417: the candidates that pass verify_word
verified(LEXICA, found, language) ==
    IF found.e # "none" THEN found
    ELSE [found EXCEPT !.r = Some(Filtered(LEXICA, found.lemmas, language))]

word_lemmas(S, W, LEXICA, word, language, poses, order) ==
    IF Len(word) = 0 THEN Lem(S, Some(<<>>), "none", 0, "empty", None, None, <<>>)
    ELSE verified(LEXICA,
                  cascade(S, W, entry_word(S, word, verify_language(language)),
                          verify_language(language), poses, order),
                  verify_language(language))

\* lines 376-379, on what word_lemmas returned
first_or(lemmas, word) ==
    IF lemmas.e # "none" THEN lemmas
    ELSE [lemmas EXCEPT !.r = IF Len(lemmas.r[1]) # 0 THEN Some(lemmas.r[1][1]) ELSE Some(word)]

\* lemmatize that falls back on the spelling of the stored entry
lemmatize_entry_word(S, W, LEXICA, word, language, pos, order) ==
    first_or(word_lemmas(S, W, LEXICA, word, language, pos, order),
             entry_word(S, word, language))

lemmatize(S, W, LEXICA, word, language, pos, order) ==
    first_or(word_lemmas(S, W, LEXICA, word, language, pos, order), word)

----------------------------------------------------------------------------
(* LanguageParser: parts of speech and IPAs *)

\* lines 546-553, on the entry f that find_wiktionary_entry returned
poses_of(f, order) ==
    IF IsNone(f.r) THEN Res(f.s, Some(<<>>), "none", f.n)
    ELSE Res(f.s,
             Some(OrderedSet(SelectSeq(Keys(f.r[1], order), LAMBDA sect : sect \in PARTS_OF_SPEECH))),
             "none", f.n)

word_poses(S, W, word, language, order) ==
    poses_of(find_wiktionary_entry(S, W, word, verify_language(language)), order)

find_word_etymology(S, W, word, language, order) ==
    find_wiktionary_subentry(S, W, word, verify_language(language), "Etymology", order)

\* entry.insert(0, ipa) of line 468: entry is the list that the store holds
insert_ipa(S, word, language, ipa) ==
    IF Has(S, word) /\ Has(S[word], language) /\ Has(S[word][language], "Pronunciation")
    THEN Put(S, word, Put(S[word], language,
                          Put(S[word][language], "Pronunciation",
                              <<ipa>> \o S[word][language]["Pronunciation"])))
    ELSE S

\* lines 450-453, on what word_ipas returned
first_ipa(ipas) ==
    IF ipas.e # "none" THEN ipas
    ELSE Res(ipas.s, IF Len(ipas.r[1]) # 0 THEN Some(ipas.r[1][1]) ELSE None, "none", ipas.n)

\* lines 467-469, on what etymology_ipa returned; fetched counts the fetches
\* made before it
after_etymology_ipa(ipa, fetched, word, language) ==
    IF ipa.e # "none" THEN Res(ipa.s, None, ipa.e, fetched + ipa.n)
    ELSE IF IsNone(ipa.r) THEN Res(ipa.s, Some(<<>>), "none", fetched + ipa.n)
    ELSE LET edited == edit_wiktionary_entry(insert_ipa(ipa.s, word, language, ipa.r[1]),
                                             word, language, "Pronunciation", <<ipa.r[1]>>)
         IN  Res(edited.s, IF edited.e = "none" THEN Some(<<ipa.r[1]>>) ELSE None,
                 edited.e, fetched + ipa.n)

RECURSIVE word_ipas(_, _, _, _, _)
RECURSIVE etym_ipas(_, _, _, _, _, _)

word_ipa(S, W, word, language, order) == first_ipa(word_ipas(S, W, word, language, order))

\* lines 515-519, on what word_ipa returned for the first of the etyms
after_etym_ipa(etym_ipa, W, etyms, ipas, fetched, order) ==
    IF etym_ipa.e # "none" THEN Res(etym_ipa.s, None, etym_ipa.e, fetched + etym_ipa.n)
    ELSE IF IsNone(etym_ipa.r) THEN Res(etym_ipa.s, None, "none", fetched + etym_ipa.n)
    ELSE etym_ipas(etym_ipa.s, W, etyms, ipas \o etym_ipa.r[1], fetched + etym_ipa.n, order)

\* the loop of lines 514-519 over the etyms left, and the join of line 520
etym_ipas(S, W, etyms, ipas, fetched, order) ==
    IF etyms = <<>> THEN Res(S, Some(ipas), "none", fetched)
    ELSE after_etym_ipa(word_ipa(S, W, Head(etyms), NoneArg, order),
                        W, Tail(etyms), ipas, fetched, order)

\* lines 511-520, on what find_word_etymology returned
after_etymology(etyms, W, order) ==
    IF etyms.e # "none" THEN etyms
    ELSE IF IsNone(etyms.r) THEN Res(etyms.s, Some(<<>>), "none", etyms.n)
    ELSE etym_ipas(etyms.s, W, etyms.r[1], <<>>, etyms.n, order)

etymology_ipa(S, W, word, language, order) ==
    after_etymology(find_word_etymology(S, W, word, language, order), W, order)

\* lines 464-470, on what find_wiktionary_subentry returned: len(None) raises
after_pronunciation(entry, W, word, language, order) ==
    IF entry.e # "none" THEN entry
    ELSE IF IsNone(entry.r) THEN Res(entry.s, None, "TypeError", entry.n)
    ELSE IF Len(entry.r[1]) # 0 THEN entry
    ELSE after_etymology_ipa(etymology_ipa(entry.s, W, word, language, order),
                             entry.n, word, language)

word_ipas(S, W, word, language, order) ==
    after_pronunciation(find_wiktionary_subentry(S, W, word, verify_language(language),
                                                 "Pronunciation", order),
                        W, word, verify_language(language), order)

----------------------------------------------------------------------------
(* LanguageParser: morphemes *)

lookup_word_etymology(S, word, language) ==
    lookup_wiktionary_subentry(S, word, verify_language(language), "Etymology")

word_morphemes(S, word, language) ==
    lookup_word_etymology(S, entry_word(S, word, language), language)

\* the test of line 632 that lets every popped word through again
expandable_visited_too(curr_word, seen) ==
    Len(curr_word) # 0 /\ ~contains_punct(curr_word)

\* the test of line 632 without the test for punctuation
expandable_punct_too(curr_word, seen) ==
    Len(curr_word) # 0 /\ curr_word \notin Range(seen)

\* the test of line 632 on the word popped from todo
expandable(curr_word, seen) ==
    Len(curr_word) # 0 /\ curr_word \notin Range(seen) /\ ~contains_punct(curr_word)

\* lines 632-637: one pass of the loop body on curr_word, left being what the
\* pop left of todo and found what word_morphemes(curr_word) returns; the
\* new values of morphemes and todo
loop_body(seen, left, curr_word, found) ==
    IF ~expandable(curr_word, seen) THEN [morphemes |-> seen, todo |-> left]
    ELSE LET added == OrderedSetUpdate(seen, <<curr_word>>)
         IN  IF IsNone(found) THEN [morphemes |-> added, todo |-> left]
             ELSE [morphemes |-> OrderedSetUpdate(added, found[1]),
                   todo      |-> left \cup Range(found[1])]

\* lines 606-612: the frame of a call of recursive_all_word_morphemes(word,
\* language) when it enters its loop: what word_morphemes returned, the
\* place i in it of the morpheme the loop is at, and submorphemes
frame_of(word, found) ==
    [word          |-> word,
     found         |-> found,
     i             |-> 1,
     submorphemes  |-> IF IsNone(found) THEN <<>> ELSE OrderedSet(found[1])]

\* the loop of the frame has no morpheme left: the call returns submorphemes
finished(frame) == IF IsNone(frame.found) THEN TRUE ELSE frame.i > Len(frame.found[1])

\* line 610: the caller's frame after the call for its i-th morpheme
\* returned result
resumed(frame, result) ==
    [frame EXCEPT !.submorphemes = OrderedSetUpdate(@, result), !.i = @ + 1]

\* the store after self.wiktionary_entries[word] was evaluated for a word in
\* a lookup that gave a dict with a key for every word it was asked for
subscripted_defaultdict(S, word) == SetDefault(S, word, EmptyDict)

\* the store after self.wiktionary_entries[word] was evaluated: the store is
\* the dict of json.load, and a subscript makes no key
subscripted(S, word) == S

\* the store after the subscripts on each of words, in turn
RECURSIVE looked_up(_, _)
looked_up(S, words) ==
    IF words = <<>> THEN S ELSE looked_up(subscripted(S, Head(words)), Tail(words))

\* lines 203-209: the spellings that entry_word subscripts the store with,
\* up to the first that has an entry in the language
nuwords_tried(S, word, language) ==
    LET nuwords == <<word, Lower(word), Title(word)>>
        hits    == {i \in 1..3 : Has(S, nuwords[i]) /\ Has(S[nuwords[i]], verify_language(language))}
    IN  IF hits = {} THEN nuwords
        ELSE SubSeq(nuwords, 1, CHOOSE i \in hits : \A j \in hits : i <= j)

----------------------------------------------------------------------------
(* WiktionaryTable: cells *)

\* A table is the sequence of its tr rows; a row is [vsHide, cells]; a cell
\* is a th or td tag:
\*   name      "th" or "td"
\*   rowspan   int(cell.get("rowspan", 1))
\*   colspan   int(cell.get("colspan", 1))
\*   attr_text cell.get("text"): the value of an HTML attribute named text
\*   a         cell.find("a"): None, or the href of the first link (None when
\*             the link has no href)
\*   text      the visible text of the cell, cleaned
\*   spans     cell.findAll("span"): each span is [a, text]
\*   p         the cell holds a paragraph
\* No cell of the model holds a sup, dl, ul or abbr element, so remove_sublists
\* returns the cell as it is.  A cell is referred to by its place <<i, j>>,
\* the j-th cell of the i-th row: two cells with the same markup are two
\* references.

table_language == "Polish"      \* WiktionaryTable.language

emdash == "emdash"              \* the character u"—"
oacute == "oacute"              \* the character u"ó"
newline == "newline"            \* the character u"\n"

href_form    == "/wiki/kot#Polish"
href_gloss   == "/wiki/Appendix:Glossary#nominative"
href_redlink == "/w/index.php?title=kotu&action=edit&redlink=1"

\* href[-len(suffix):] == suffix, on the hrefs of the model
Suffixes == {<<href_form, "Polish">>, <<href_redlink, "redlink=1">>}
EndsWith(href, suffix) == <<href, suffix>> \in Suffixes

is_header(cell) ==
    IF IsNone(cell.a) THEN TRUE
    ELSE IF IsNone(cell.a[1]) THEN FALSE
    ELSE ~EndsWith(cell.a[1][1], table_language) /\ ~EndsWith(cell.a[1][1], "redlink=1")

contains_content(tag) ==
    IF IsNone(tag.a) THEN FALSE
    ELSE IF IsNone(tag.a[1]) THEN FALSE
    ELSE EndsWith(tag.a[1][1], table_language)

is_cell_empty(cell) == cell.text = <<emdash>>

valid_content(cell) == ~is_cell_empty(cell) /\ ~cell.p

is_content(cell) ==
    IF cell.name = "td" THEN valid_content(cell) ELSE contains_content(cell)

cell_rowspan(cell) == cell.rowspan

cell_colspan(cell) == cell.colspan

\* sep.join(texts)
RECURSIVE Join(_, _)
Join(texts, sep) ==
    IF texts = <<>> THEN <<>>
    ELSE IF Len(texts) = 1 THEN texts[1]
    ELSE texts[1] \o sep \o Join(Tail(texts), sep)

\* the texts of the spans that hold content, joined by newlines
content_text(spans) ==
    LET holders == SelectSeq(spans, LAMBDA span : contains_content(span))
    IN  Join([i \in 1..Len(holders) |-> holders[i].text], <<newline>>)

cell_text(cell) ==
    IF Len(cell.spans) = 0 THEN cell.text ELSE content_text(cell.spans)

\* re.compile("[,/\n]").split(text)
RECURSIVE Split(_)
Split(text) ==
    LET cuts == {i \in 1..Len(text) : text[i] \in {",", "/", newline}}
    IN  IF cuts = {} THEN <<text>>
        ELSE LET i == CHOOSE i \in cuts : \A j \in cuts : i <= j
             IN  <<SubSeq(text, 1, i - 1)>> \o Split(SubSeq(text, i + 1, Len(text)))

\* e.strip()
Strip(text) ==
    LET inked == {i \in 1..Len(text) : text[i] \notin {" ", newline}}
    IN  IF inked = {} THEN <<>>
        ELSE SubSeq(text, CHOOSE i \in inked : \A j \in inked : i <= j,
                          CHOOSE i \in inked : \A j \in inked : i >= j)

\* cell_entry: the text split on comma, slash and newline, each piece stripped
cell_entry(cell) ==
    IF Len(cell_text(cell)) # 0
    THEN [i \in 1..Len(Split(cell_text(cell))) |-> Strip(Split(cell_text(cell))[i])]
    ELSE <<>>

----------------------------------------------------------------------------
(* WiktionaryTable: the grid *)

\* table_rows: the hidden rows when there are any, all rows otherwise
table_rows(tbl) ==
    LET hidden == SelectSeq(tbl, LAMBDA row : row.vsHide)
    IN  IF Len(hidden) # 0 THEN hidden ELSE tbl

RECURSIVE SumColspans(_)
SumColspans(cells) ==
    IF cells = <<>> THEN 0 ELSE cell_colspan(Head(cells)) + SumColspans(Tail(cells))

\* count_cols: the col-spans of the first tr of the table, summed
count_cols(tbl) == IF Len(tbl) = 0 THEN 0 ELSE SumColspans(tbl[1].cells)

\* WiktionaryTable.__init__: the fields of the object built on tbl
WiktionaryTable(tbl) ==
    [rows     |-> table_rows(tbl),
     num_rows |-> Len(table_rows(tbl)),
     num_cols |-> count_cols(tbl)]

\* the cell at place <<i, j>>
CellAt(T, place) == T.rows[place[1]].cells[place[2]]

is_col_empty(T, col) == cell_rowspan(col) >= T.num_rows /\ IsNone(col.attr_text)

Min(a, b) == IF a <= b THEN a ELSE b

\* the coordinates that lines 1520-1531 write for a cell put at (r, c)
Rectangle(r, c, rowspan, colspan) ==
    {<<r + rs, c>> : rs \in 0..(rowspan - 1)} \cup
    {<<r + rs, c + cs>> : rs \in 0..(rowspan - 1), cs \in 1..(colspan - 1)}

\* table_dict[coord] = cell for every coord of coords
Assign(table_dict, coords, place) ==
    [coord \in (DOMAIN table_dict) \cup coords |->
        IF coord \in coords THEN place ELSE table_dict[coord]]

\* lines 1490-1494: the place in the row of the first cell from k on that is
\* not an empty column, or of the last cell when all of them are
RECURSIVE skip_empty(_, _, _)
skip_empty(T, cells, k) ==
    IF is_col_empty(T, cells[k]) /\ k < Len(cells) THEN skip_empty(T, cells, k + 1) ELSE k

\* lines 1501-1512: while coord is taken, move to the next column, or past
\* the last column to the next row; at records the iterators and the coord
RECURSIVE skip_taken(_, _, _)
skip_taken(T, table_dict, at) ==
    IF <<at.r, at.c>> \notin DOMAIN table_dict THEN [at EXCEPT !.free = TRUE]
    ELSE IF at.next_col < at.len_cols
    THEN skip_taken(T, table_dict, [at EXCEPT !.c = @ + 1, !.next_col = @ + 1])
    ELSE IF at.next_row < T.num_rows
    THEN skip_taken(T, table_dict, [at EXCEPT !.r = @ + 1, !.next_row = @ + 1])
    ELSE [at EXCEPT !.free = FALSE]

\* lines 1514-1541: the j-th cell of the row is put at (at.r, at.c), on every
\* coordinate of its rectangle, and col_iter moves past its columns
put_cell(T, st, at, j) ==
    LET cell    == CellAt(T, <<st.i, j>>)
        rowspan == Min(cell_rowspan(cell), T.num_rows)
        colspan == Min(cell_colspan(cell), st.num_cols)
        spanned == colspan # 1 \/ rowspan # 1
    IN  [st EXCEPT
            !.table_dict = Assign(@, IF spanned THEN Rectangle(at.r, at.c, rowspan, colspan)
                                     ELSE {<<at.r, at.c>>}, <<st.i, j>>),
            !.placed     = Append(@, [place |-> <<st.i, j>>, r |-> at.r, c |-> at.c,
                                      rowspan |-> rowspan, colspan |-> colspan]),
            !.r          = at.r,
            !.next_row   = at.next_row,
            !.next_col   = IF spanned /\ colspan > 1
                           THEN Min(at.next_col + colspan - 1, st.len_cols)
                           ELSE at.next_col]

\* lines 1501-1541, on where skip_taken ended: the cell is put there, or
\* dropped when the iterators ran out
after_skip_taken(T, st, at, j) ==
    IF at.free THEN put_cell(T, st, at, j)
    ELSE [st EXCEPT !.r = at.r, !.next_row = at.next_row, !.next_col = at.next_col]

\* lines 1496-1541, on the cell j that skip_empty ended on
after_skip_empty(T, st, c, j) ==
    IF is_col_empty(T, CellAt(T, <<st.i, j>>))
    THEN [st EXCEPT !.k = j + 1, !.next_col = c + 1, !.num_cols = @ - 1,
                    !.skipped = @ \cup {<<st.i, x>> : x \in st.k..j}]
    ELSE after_skip_taken(T, [st EXCEPT !.k = j + 1, !.next_col = c + 1,
                                        !.skipped = @ \cup {<<st.i, x>> : x \in st.k..(j - 1)}],
                          skip_taken(T, st.table_dict,
                                     [r |-> st.r, c |-> c, next_col |-> c + 1,
                                      next_row |-> st.next_row, len_cols |-> st.len_cols,
                                      free |-> FALSE]),
                          j)

\* lines 1481-1541: the loop over col_iter for the cells of row i.  st holds
\* table_dict, num_cols, the r of the loop, the next values of row_iter and
\* col_iter, the length of col_range when the row began, the place k of the
\* next cell of cells_iter, placed, the cells put so far with the origin and
\* the spans they were put with, and skipped, the places of the cells that
\* lines 1490-1499 passed over as empty columns
RECURSIVE col_loop(_, _)
col_loop(T, st) ==
    IF st.next_col >= st.len_cols THEN st
    ELSE IF st.k > Len(T.rows[st.i].cells)
    THEN col_loop(T, [st EXCEPT !.next_col = @ + 1])
    ELSE col_loop(T, after_skip_empty(T, st, st.next_col,
                                      skip_empty(T, T.rows[st.i].cells, st.k)))

\* lines 1474-1541: the loop over row_iter
RECURSIVE row_loop(_, _)
row_loop(T, st) ==
    IF st.next_row >= T.num_rows THEN st
    ELSE row_loop(T, col_loop(T, [st EXCEPT !.r = st.next_row, !.i = st.next_row + 1,
                                            !.next_row = @ + 1, !.next_col = 0,
                                            !.len_cols = IF st.num_cols > 0 THEN st.num_cols ELSE 0,
                                            !.k = 1]))

\* parse_table with the cells it put: the state of the loops at the end
parse_table_run(T) ==
    row_loop(T, [table_dict |-> <<>>, placed |-> <<>>, skipped |-> {}, num_cols |-> T.num_cols,
                 r |-> 0, i |-> 0, next_row |-> 0, next_col |-> 0, len_cols |-> 0, k |-> 1])

parse_table(T) == parse_table_run(T).table_dict

----------------------------------------------------------------------------
(* WiktionaryTable: label paths and the declension *)

\* sorted(table_dict)[-1][0], which cell_rows takes for the number of rows
LastRow(table_dict) ==
    CHOOSE r \in {coord[1] : coord \in DOMAIN table_dict} :
        \A coord \in DOMAIN table_dict : coord[1] <= r

\* the loop of cell_rows, were the row-span compared with the number of rows
\* of the grid
RECURSIVE rows_scan_row_count(_, _, _, _, _, _)
rows_scan_row_count(T, table_dict, r, c, rows, header_yet) ==
    IF c < 0 THEN rows
    ELSE IF <<r, c>> \notin DOMAIN table_dict
    THEN rows_scan_row_count(T, table_dict, r, c - 1, rows, header_yet)
    ELSE IF is_header(CellAt(T, table_dict[<<r, c>>]))
    THEN IF /\ cell_rowspan(CellAt(T, table_dict[<<r, c>>])) <= LastRow(table_dict) + 1
            /\ Len(cell_text(CellAt(T, table_dict[<<r, c>>]))) # 0
            /\ cell_text(CellAt(T, table_dict[<<r, c>>])) \notin Range(rows)
         THEN rows_scan_row_count(T, table_dict, r, c - 1,
                                  <<cell_text(CellAt(T, table_dict[<<r, c>>]))>> \o rows, TRUE)
         ELSE rows_scan_row_count(T, table_dict, r, c - 1, rows, header_yet)
    ELSE IF header_yet THEN rows
    ELSE rows_scan_row_count(T, table_dict, r, c - 1, rows, header_yet)

\* lines 1324-1333: the loop over the coords of row r from column c down to
\* column 0; rows are the labels collected so far
RECURSIVE rows_scan(_, _, _, _, _, _)
rows_scan(T, table_dict, r, c, rows, header_yet) ==
    IF c < 0 THEN rows
    ELSE IF <<r, c>> \notin DOMAIN table_dict
    THEN rows_scan(T, table_dict, r, c - 1, rows, header_yet)
    ELSE IF is_header(CellAt(T, table_dict[<<r, c>>]))
    THEN IF /\ cell_rowspan(CellAt(T, table_dict[<<r, c>>])) <= LastRow(table_dict)
            /\ Len(cell_text(CellAt(T, table_dict[<<r, c>>]))) # 0
            /\ cell_text(CellAt(T, table_dict[<<r, c>>])) \notin Range(rows)
         THEN rows_scan(T, table_dict, r, c - 1,
                        <<cell_text(CellAt(T, table_dict[<<r, c>>]))>> \o rows, TRUE)
         ELSE rows_scan(T, table_dict, r, c - 1, rows, header_yet)
    ELSE IF header_yet THEN rows
    ELSE rows_scan(T, table_dict, r, c - 1, rows, header_yet)

cell_rows(T, coord, table_dict) ==
    rows_scan(T, table_dict, coord[1], coord[2] - 1, <<>>, FALSE)

\* lines 1356-1364: the loop over the coords of column c from row r down to
\* row 0; cols are the labels collected so far
RECURSIVE cols_scan(_, _, _, _, _, _)
cols_scan(T, table_dict, r, c, cols, header_yet) ==
    IF r < 0 THEN cols
    ELSE IF <<r, c>> \notin DOMAIN table_dict
    THEN cols_scan(T, table_dict, r - 1, c, cols, header_yet)
    ELSE IF is_header(CellAt(T, table_dict[<<r, c>>]))
    THEN IF /\ cell_colspan(CellAt(T, table_dict[<<r, c>>])) < T.num_cols
            /\ Len(cell_text(CellAt(T, table_dict[<<r, c>>]))) # 0
         THEN cols_scan(T, table_dict, r - 1, c,
                        <<cell_text(CellAt(T, table_dict[<<r, c>>]))>> \o cols, TRUE)
         ELSE cols_scan(T, table_dict, r - 1, c, cols, header_yet)
    ELSE IF header_yet THEN cols
    ELSE cols_scan(T, table_dict, r - 1, c, cols, header_yet)

cell_cols(T, coord, table_dict) ==
    cols_scan(T, table_dict, coord[1] - 1, coord[2], <<>>, FALSE)

\* l.lower().replace(" ", "_")
label_text(l) == [i \in 1..Len(l) |-> IF l[i] = " " THEN "_" ELSE LowerChar(l[i])]

\* the lambda of lines 1561-1562
line_text(line) ==
    Join([i \in 1..Len(SelectSeq(line, LAMBDA l : emdash \notin Range(l))) |->
              label_text(SelectSeq(line, LAMBDA l : emdash \notin Range(l))[i])],
         <<" ", ">", " ">>)

\* coord before other in sorted(coords)
Before(coord, other) ==
    coord[1] < other[1] \/ (coord[1] = other[1] /\ coord[2] <= other[2])

\* sorted(coords)
RECURSIVE Sorted(_)
Sorted(coords) ==
    IF coords = {} THEN <<>>
    ELSE <<CHOOSE coord \in coords : \A other \in coords : Before(coord, other)>> \o
         Sorted(coords \ {CHOOSE coord \in coords : \A other \in coords : Before(coord, other)})

\* lines 1574-1578: entry is unioned into declension[col_text][row_text]
add_forms(declension, col_text, row_text, entry) ==
    Put(declension, col_text,
        Put(SetDefault(declension, col_text, EmptyDict)[col_text], row_text,
            OrderedSet(SetDefault(SetDefault(declension, col_text, EmptyDict)[col_text],
                                  row_text, <<>>)[row_text] \o entry)))

\* the test of line 1573 that lets every row path through
row_path_allowed_always(T, row_text) == TRUE

\* the test of line 1573
row_path_allowed(T, row_text) == Len(row_text) > 0 \/ T.num_rows - T.num_cols = 1

\* lines 1572-1578, on the texts of the paths and the forms of the cell
add_entry(T, declension, col_text, row_text, entry) ==
    IF Len(entry) > 0 /\ Len(col_text) > 0 /\ row_path_allowed(T, row_text)
    THEN add_forms(declension, col_text, row_text, entry)
    ELSE declension

\* declension_step that takes the row path for the column path and the
\* column path for the row path
declension_step_paths_swapped(T, table_dict, declension, coord) ==
    IF /\ is_content(CellAt(T, table_dict[coord]))
       /\ cell_colspan(CellAt(T, table_dict[coord])) <= T.num_cols
    THEN add_entry(T, declension,
                   line_text(cell_rows(T, coord, table_dict)),
                   line_text(cell_cols(T, coord, table_dict)),
                   cell_entry(CellAt(T, table_dict[coord])))
    ELSE declension

\* lines 1565-1578: the body of the loop for the cell at coord
declension_step(T, table_dict, declension, coord) ==
    IF /\ is_content(CellAt(T, table_dict[coord]))
       /\ cell_colspan(CellAt(T, table_dict[coord])) <= T.num_cols
    THEN add_entry(T, declension,
                   line_text(cell_cols(T, coord, table_dict)),
                   line_text(cell_rows(T, coord, table_dict)),
                   cell_entry(CellAt(T, table_dict[coord])))
    ELSE declension

\* lines 1564-1578: the loop over sorted_coords
RECURSIVE declension_loop(_, _, _, _)
declension_loop(T, table_dict, sorted_coords, declension) ==
    IF sorted_coords = <<>> THEN declension
    ELSE declension_loop(T, table_dict, Tail(sorted_coords),
                         declension_step(T, table_dict, declension, Head(sorted_coords)))

\* declension_of that begins with a declension that holds an empty column path
declension_of_seeded(T, coords) ==
    declension_loop(T, coords, Sorted(DOMAIN coords), Put(EmptyDict, <<>>, EmptyDict))

\* parse_declension, on the grid that parse_table returned
declension_of(T, coords) == declension_loop(T, coords, Sorted(DOMAIN coords), EmptyDict)

parse_declension(T) == declension_of(T, parse_table(T))

----------------------------------------------------------------------------
(* The data of a session *)

\* part-of-speech entries
pos_is_driven == <<<<w_driven, None>>, <<t_ppof, Some(w_drive)>>>>
pos_driven    == <<<<w_driven, None>>>>
pos_drive     == <<<<w_drive, Some(w_drive)>>, <<t_ppof, Some(w_driven)>>, <<t_ppof, Some(w_drive)>>>>
pos_phrase    == <<<<t_ppof, None>>>>
pos_cat       == <<<<w_cat, None>>>>

Dict1(k, v) == Put(EmptyDict, k, v)
Dict2(k1, v1, k2, v2) == Put(Dict1(k1, v1), k2, v2)

\* language entries a page or a stored snapshot can hold for "driven"
DrivenEntries ==
    { Dict1("Verb", pos_is_driven),
      Dict1("Verb", pos_driven),
      Dict1("Noun", pos_phrase),
      Dict2("Verb", pos_is_driven, "Noun", pos_drive),
      Dict2("Verb", pos_is_driven, "Declension", <<w_driven, w_drive>>) }

\* language entries a page or a stored snapshot can hold for "cat"
CatEntries ==
    { Dict1("Noun", pos_cat),
      Dict1("Etymology", <<w_felinus>>),
      Dict2("Noun", pos_cat, "Etymology", <<w_felinus>>) }

\* what the site can serve
Webs ==
    { EmptyDict,
      Dict2(w_cat, Dict1("English", Dict1("Etymology", <<w_felinus>>)),
            w_driven, Dict1("English", Dict1("Verb", pos_is_driven))),
      Dict2(w_cat, Dict1("English", Dict2("Noun", pos_cat, "Etymology", <<w_catus>>)),
            w_driven, Dict2("English", Dict1("Declension", <<w_driven>>),
                            "Polish", EmptyDict)) }

\* what wiktionary_entries.json can hold when the session starts
CatSnapshots ==
    {EmptyDict, Dict1(w_cat, EmptyDict)} \cup {Dict1(w_cat, Dict1("English", e)) : e \in CatEntries}
DrivenSnapshots ==
    {EmptyDict} \cup {Dict1(w_driven, Dict1("English", e)) : e \in DrivenEntries}

\* the frequency word lists
Lexica == { [l \in Languages |-> {}],
            [l \in Languages |-> IF l = "English" THEN {w_drive} ELSE {}] }

\* arguments of the calls
LanguageArgs == {NoneArg, "Polish"}
EditWords    == {w_cat}
EditHeadings == {"Etymology", "Pronunciation"}
EditItems    == {w_felinus, w_catus}
Contents     == UNION {[1..n -> EditItems] : n \in 0..MaxContentLen}
FetchWords   == {w_cat, w_driven, w_Driven}
LemmaWords   == {w_driven, w_Driven, w_cat, w_un, w_empty}
PosArgs      == {None, Some({"Verb"})}

\* IPA transcriptions
i_kat     == <<"k","a","e","t">>
i_felinus == <<"f","e","l","i","n","u","s">>

\* language entries a stored snapshot can hold for "cat" in a session of queries
CatQueryEntries ==
    CatEntries \cup
    { Dict1("Pronunciation", <<i_kat>>),
      Dict1("Pronunciation", <<>>),
      Dict2("Pronunciation", <<>>, "Etymology", <<w_felinus>>),
      Dict2("Pronunciation", <<>>, "Etymology", <<w_felinus, w_un>>),
      Dict2("Noun", pos_cat, "Etymology 1", <<w_felinus>>) }
CatQuerySnapshots ==
    {EmptyDict, Dict1(w_cat, EmptyDict)} \cup
    {Dict1(w_cat, Dict1("English", e)) : e \in CatQueryEntries}
FelinusSnapshots ==
    {EmptyDict, Dict1(w_felinus, Dict1("English", Dict1("Pronunciation", <<i_felinus>>)))}

QueryWords    == {w_cat, w_driven, w_un}
QueryHeadings == {NoneArg, "Pronunciation", "Etymology", "Declension"}

\* Etymology lists a stored snapshot can hold, of "cat", "felinus", "catus"
CatEtymologies     == {<<w_felinus>>, <<w_cat>>, <<w_felinus, w_un>>, <<w_catus, w_felinus>>}
FelinusEtymologies == {<<w_cat>>, <<w_catus>>, <<w_empty, w_cat>>, <<>>}
CatusEtymologies   == {<<w_cat>>, <<w_felinus>>, <<w_drive>>}

EtymologySnapshots(word, etymologies) ==
    {EmptyDict, Dict1(word, Dict1("English", Dict1("Noun", pos_cat)))} \cup
    {Dict1(word, Dict1("English", Dict1("Etymology", e))) : e \in etymologies}

MorphemeWords == {w_cat, w_felinus, w_catus, w_un, w_empty}

\* the cells of a table
Cell(name, a, text) ==
    [name |-> name, rowspan |-> 1, colspan |-> 1, attr_text |-> None, a |-> a,
     text |-> text, spans |-> <<>>, p |-> FALSE]
Th(text)   == Cell("th", None, text)                        \* <th>text</th>
Td(text)   == Cell("td", None, text)                        \* <td>text</td>
Form(text) == Cell("td", Some(Some(href_form)), text)       \* <td><a href="/wiki/kot#Polish">text</a></td>
Spanning(cell, rowspan, colspan) == [cell EXCEPT !.rowspan = rowspan, !.colspan = colspan]
Row(cells) == [vsHide |-> FALSE, cells |-> cells]
Hidden(cells) == [vsHide |-> TRUE, cells |-> cells]

\* tbl with cell as the j-th cell of its i-th row
WithCell(tbl, i, j, cell) == [tbl EXCEPT ![i].cells[j] = cell]

\* the texts of the cells
l_Singular   == <<"S","i","n","g","u","l","a","r">>
l_Plural     == <<"P","l","u","r","a","l">>
l_Nominative == <<"N","o","m","i","n","a","t","i","v","e">>
l_Genitive   == <<"G","e","n","i","t","i","v","e">>
l_Number     == <<"N","u","m","b","e","r">>
l_Case       == <<"C","a","s","e">>
l_Past_tense == <<"P","a","s","t"," ","t","e","n","s","e">>
f_kot   == <<"k","o","t">>
f_koty  == <<"k","o","t","y">>
f_kota  == <<"k","o","t","a">>
f_kotow == <<"k","o","t",oacute,"w">>

\* the keys of the declension of "kot"
k_singular   == <<"s","i","n","g","u","l","a","r">>
k_plural     == <<"p","l","u","r","a","l">>
k_nominative == <<"n","o","m","i","n","a","t","i","v","e">>
k_genitive   == <<"g","e","n","i","t","i","v","e">>

\* the declension table of "kot": a row of column labels, then one row for
\* each case with its label and the forms
KotTable ==
    << Row(<<Th(<<>>), Th(l_Singular), Th(l_Plural)>>),
       Row(<<Th(l_Nominative), Form(f_kot), Form(f_koty)>>),
       Row(<<Th(l_Genitive), Form(f_kota), Form(f_kotow)>>) >>

KotDeclension ==
    Dict2(k_singular, Dict2(k_nominative, <<f_kot>>, k_genitive, <<f_kota>>),
          k_plural,   Dict2(k_nominative, <<f_koty>>, k_genitive, <<f_kotow>>))

\* tables of the same make with other labels and sizes
ColumnLabels == {<<l_Singular, l_Plural>>, <<l_Plural, l_Singular>>, <<l_Singular>>,
                 <<l_Past_tense, l_Number>>}
RowLabels    == {<<l_Nominative, l_Genitive>>, <<l_Genitive>>,
                 <<l_Nominative, l_Genitive, l_Case>>}
Forms        == << <<f_kot, f_koty>>, <<f_kota, f_kotow>>, <<f_koty, f_kota>> >>

LabelledTable(corner, cols, rows) ==
    <<Row(<<corner>> \o [c \in 1..Len(cols) |-> Th(cols[c])])>> \o
    [r \in 1..Len(rows) |->
        Row(<<Th(rows[r])>> \o [c \in 1..Len(cols) |-> Form(Forms[r][c])])]

LabelledTables ==
    {LabelledTable(corner, cols, rows) :
        corner \in {Th(<<>>), Td(<<>>)}, cols \in ColumnLabels, rows \in RowLabels}

\* a list of forms under column labels, without row labels
ListTable(n) ==
    <<Row(<<Th(l_Singular), Th(l_Plural)>>)>> \o
    [r \in 1..n |-> Row(<<Form(Forms[r][1]), Form(Forms[r][2])>>)]

ListTables == {ListTable(n) : n \in 1..3}

\* the table of "kot" with other spans on one of its cells
SpanTables ==
    {WithCell(KotTable, i, j, Spanning(KotTable[i].cells[j], rowspan, colspan)) :
        i \in 1..3, j \in 1..3, rowspan \in 1..MaxSpan, colspan \in 1..MaxSpan}

\* the table of "kot" whose label "Singular" spans rows and whose label
\* "Nominative" spans columns: from two rows and two columns on, the two meet
CrossingTables ==
    {WithCell(WithCell(KotTable, 1, 2, Spanning(Th(l_Singular), rowspan, 1)),
              2, 1, Spanning(Th(l_Nominative), 1, colspan)) :
        rowspan \in 1..MaxSpan, colspan \in 1..MaxSpan}

\* tables whose cells span several rows or columns without overlap
NestedTables ==
    { << Row(<<Th(<<>>), Spanning(Th(l_Number), 1, 2)>>),
         Row(<<Th(<<>>), Th(l_Singular), Th(l_Plural)>>),
         Row(<<Th(l_Nominative), Form(f_kot), Form(f_koty)>>) >>,
      << Row(<<Th(<<>>), Th(<<>>), Th(l_Singular)>>),
         Row(<<Spanning(Th(l_Case), 2, 1), Th(l_Nominative), Form(f_kot)>>),
         Row(<<Th(l_Genitive), Form(f_kota)>>),
         Row(<<Th(l_Number), Th(l_Plural), Form(f_koty)>>) >>,
      << Row(<<Th(<<>>), Th(l_Singular), Th(l_Plural)>>),
         Row(<<Th(l_Nominative), Spanning(Form(f_kot), 1, 2)>>),
         Row(<<Th(l_Genitive), Form(f_kota), Form(f_kotow)>>) >>,
      << Row(<<Th(<<>>), Spanning(Th(l_Singular), 2, 1), Th(l_Plural)>>),
         Row(<<Th(<<>>), Th(l_Number)>>),
         Row(<<Th(l_Nominative), Form(f_kot), Form(f_koty)>>) >> }

\* the texts a cell of forms can hold
FormTexts ==
    { <<",">>, <<"/">>, <<>>, <<emdash>>,
      f_kot \o <<",", " ">> \o f_kota,
      f_kot \o <<"/">> \o f_kota,
      f_kot \o <<",">> }

\* a cell whose forms are in spans: the spans of the language hold the forms
SpanCells ==
    { [Form(f_kot \o <<" ">> \o f_kota) EXCEPT
          !.spans = << [a |-> Some(Some(href_form)), text |-> f_kot],
                       [a |-> Some(Some(href_form)), text |-> f_kota] >>],
      [Form(f_kot \o <<" ">> \o l_Case) EXCEPT
          !.spans = << [a |-> Some(Some(href_form)), text |-> f_kot],
                       [a |-> None, text |-> l_Case] >>],
      [Form(l_Case) EXCEPT
          !.spans = << [a |-> Some(Some(href_gloss)), text |-> l_Case] >>],
      [Form(<<>>) EXCEPT
          !.spans = << [a |-> Some(Some(href_form)), text |-> <<>>],
                       [a |-> Some(Some(href_form)), text |-> <<>>] >>] }

\* the cells that the markup can hold in the place of a form or a label
OtherCells ==
    { Td(f_kot),
      Td(<<"/">>),
      Spanning(Td(f_kot), 1, 2),
      Cell("th", Some(Some(href_form)), f_kot),
      Cell("td", Some(Some(href_gloss)), l_Case),
      Cell("td", Some(Some(href_redlink)), f_kot),
      Cell("td", Some(None), f_kot),
      [Form(f_kot) EXCEPT !.p = TRUE],
      [Spanning(Th(<<>>), 3, 1) EXCEPT !.attr_text = Some(<<>>)],
      Th(<<emdash>>),
      Th(l_Past_tense) } \cup SpanCells \cup {Form(text) : text \in FormTexts}

CellTables ==
    {WithCell(KotTable, i, j, cell) : i \in 2..3, j \in 1..2, cell \in OtherCells}

\* tables with no row, one row, hidden rows, more cells than columns, a last
\* row without cells, and two label-form pairs side by side
OddTables ==
    { <<>>,
      <<Row(<<Th(l_Singular), Form(f_kot)>>)>>,
      <<Row(<<Th(l_Singular), Th(l_Plural)>>), Hidden(<<Form(f_kot), Form(f_koty)>>)>>,
      <<Row(<<Th(l_Number)>>), Hidden(<<Th(l_Singular), Th(l_Plural)>>),
        Hidden(<<Form(f_kot), Form(f_koty)>>), Hidden(<<Form(f_kota), Form(f_kotow)>>)>>,
      <<Row(<<Th(l_Singular), Th(l_Plural)>>),
        Row(<<Th(l_Nominative), Form(f_kot), Form(f_koty)>>),
        Row(<<Form(f_kota), Form(f_kotow)>>)>>,
      <<Row(<<Spanning(Th(l_Nominative), 2, 1), Form(f_kot), Form(f_koty)>>),
        Row(<<Form(f_kota), Form(f_kotow)>>),
        Row(<<>>)>>,
      <<Row(<<Th(<<>>), Th(l_Singular), Th(<<>>), Th(l_Plural)>>),
        Row(<<Th(l_Nominative), Form(f_kot), Th(l_Nominative), Form(f_koty)>>),
        Row(<<Th(l_Genitive), Form(f_kota), Td(<<>>), Form(f_kotow)>>)>> }

Tables == LabelledTables \cup ListTables \cup SpanTables \cup CrossingTables \cup
          NestedTables \cup CellTables \cup OddTables

\* the orders in which a dict of headings can be iterated: the results of
\* the model depend only on the relative order of the part-of-speech headings
HeadingOrders ==
    { <<"Verb", "Noun", "Etymology", "Etymology 1", "Pronunciation", "Declension">>,
      <<"Noun", "Verb", "Etymology", "Etymology 1", "Pronunciation", "Declension">> }

----------------------------------------------------------------------------
(* The session: calls on one LanguageParser *)

Call(name, word, language, heading, content, poses, order) ==
    [name |-> name, word |-> word, language |-> language, heading |-> heading,
     content |-> content, poses |-> poses, order |-> order]

Idle == Call("idle", <<>>, NoneArg, NoneArg, <<>>, None, <<>>)

NoOut == Outcome(Res(EmptyDict, None, "none", 0))

\* no all_word_morphemes or recursive_all_word_morphemes call is running
NoLoop == morphemes = <<>> /\ todo = {} /\ stack = <<>>

\* the session has no WiktionaryTable
NoTable == <<>>

\* a session of store calls: any snapshot of "cat", "driven" stored or not
Init ==
    /\ wiktionary_entries \in
           {Update(c, d) : c \in CatSnapshots,
                           d \in {EmptyDict, Dict1(w_driven, Dict1("English", Dict1("Verb", pos_is_driven)))}}
    /\ web \in Webs
    /\ lexicon = [l \in Languages |-> {}]
    /\ op = Idle
    /\ pre = wiktionary_entries
    /\ out = NoOut
    /\ NoLoop
    /\ table = NoTable

\* a session of lemma queries: any snapshot of "driven", "cat" stored or not
LemmaInit ==
    /\ wiktionary_entries \in
           {Update(c, d) : c \in {EmptyDict, Dict1(w_cat, Dict1("English", Dict1("Noun", pos_cat)))},
                           d \in DrivenSnapshots}
    /\ web \in Webs
    /\ lexicon \in Lexica
    /\ op = Idle
    /\ pre = wiktionary_entries
    /\ out = NoOut
    /\ NoLoop
    /\ table = NoTable

\* a session of queries: any snapshot of "cat", "felinus" and "driven" stored or not
QueryInit ==
    /\ wiktionary_entries \in
           {Update(c, Update(f, d)) :
                c \in CatQuerySnapshots, f \in FelinusSnapshots,
                d \in {EmptyDict, Dict1(w_driven, Dict1("English", Dict1("Verb", pos_is_driven)))}}
    /\ web \in Webs
    /\ lexicon = [l \in Languages |-> {}]
    /\ op = Idle
    /\ pre = wiktionary_entries
    /\ out = NoOut
    /\ NoLoop
    /\ table = NoTable

\* a session of morpheme queries: any etymology graph over "cat", "felinus", "catus"
MorphemeInit ==
    /\ wiktionary_entries \in
           {Update(c, Update(f, u)) :
                c \in EtymologySnapshots(w_cat, CatEtymologies),
                f \in EtymologySnapshots(w_felinus, FelinusEtymologies),
                u \in EtymologySnapshots(w_catus, CatusEtymologies)}
    /\ web = EmptyDict
    /\ lexicon = [l \in Languages |-> {}]
    /\ op = Idle
    /\ pre = wiktionary_entries
    /\ out = NoOut
    /\ NoLoop
    /\ table = NoTable

\* a session on one WiktionaryTable, built on any of the tables
TableInit ==
    /\ wiktionary_entries = EmptyDict
    /\ web = EmptyDict
    /\ lexicon = [l \in Languages |-> {}]
    /\ op = Idle
    /\ pre = wiktionary_entries
    /\ out = NoOut
    /\ NoLoop
    /\ table \in Tables

Ready == op.name = "idle"

Done(call, res) ==
    /\ op' = call
    /\ pre' = wiktionary_entries
    /\ wiktionary_entries' = res.s
    /\ out' = [x \in (DOMAIN res) \ {"s"} |-> res[x]]
    /\ UNCHANGED <<web, lexicon, morphemes, todo, stack, table>>

EditWiktionaryEntry ==
    /\ Ready
    /\ \E word \in EditWords, language \in LanguageArgs, heading \in EditHeadings,
          content \in Contents :
          Done(Call("edit_wiktionary_entry", word, language, heading, content, None, <<>>),
               edit_wiktionary_entry(wiktionary_entries, word, language, heading, content))

AddWiktionaryEntry ==
    /\ Ready
    /\ \E word \in FetchWords, language \in LanguageArgs :
          Done(Call("add_wiktionary_entry", word, language, NoneArg, <<>>, None, <<>>),
               add_wiktionary_entry(wiktionary_entries, web, word, language))

FindWiktionaryEntry ==
    /\ Ready
    /\ \E word \in FetchWords, language \in LanguageArgs :
          Done(Call("find_wiktionary_entry", word, language, NoneArg, <<>>, None, <<>>),
               find_wiktionary_entry(wiktionary_entries, web, word, language))

WordLemmas ==
    /\ Ready
    /\ \E word \in LemmaWords, language \in LanguageArgs, poses \in PosArgs,
          order \in HeadingOrders :
          Done(Call("word_lemmas", word, language, NoneArg, <<>>, poses, order),
               word_lemmas(wiktionary_entries, web, lexicon, word, language, poses, order))

Lemmatize ==
    /\ Ready
    /\ \E word \in LemmaWords, language \in LanguageArgs, poses \in PosArgs,
          order \in HeadingOrders :
          Done(Call("lemmatize", word, language, NoneArg, <<>>, poses, order),
               lemmatize(wiktionary_entries, web, lexicon, word, language, poses, order))

WordPoses ==
    /\ Ready
    /\ \E word \in QueryWords, language \in LanguageArgs, order \in HeadingOrders :
          Done(Call("word_poses", word, language, NoneArg, <<>>, None, order),
               word_poses(wiktionary_entries, web, word, language, order))

WordIpas ==
    /\ Ready
    /\ \E word \in QueryWords, language \in LanguageArgs, order \in HeadingOrders :
          Done(Call("word_ipas", word, language, NoneArg, <<>>, None, order),
               word_ipas(wiktionary_entries, web, word, language, order))

FindWiktionarySubentry ==
    /\ Ready
    /\ \E word \in QueryWords, language \in LanguageArgs, heading \in QueryHeadings,
          order \in HeadingOrders :
          Done(Call("find_wiktionary_subentry", word, language, heading, <<>>, None, order),
               find_wiktionary_subentry(wiktionary_entries, web, word, language, heading, order))

FindStemwords ==
    /\ Ready
    /\ \E word \in QueryWords, language \in LanguageArgs, poses \in PosArgs,
          order \in HeadingOrders :
          Done(Call("find_stemwords", word, language, NoneArg, <<>>, poses, order),
               find_stemwords(wiktionary_entries, web, word, language, poses, order))

FindHeadwords ==
    /\ Ready
    /\ \E word \in QueryWords, language \in LanguageArgs, poses \in PosArgs,
          order \in HeadingOrders :
          Done(Call("find_headwords", word, language, NoneArg, <<>>, poses, order),
               find_headwords(wiktionary_entries, web, word, language, poses, order))

\* all_word_morphemes is in its while loop
InLoop == op.name = "all_word_morphemes" /\ IsNone(out.r)

\* lines 626-628: the call, up to the loop
AllWordMorphemes ==
    /\ Ready
    /\ \E word \in MorphemeWords, language \in LanguageArgs :
          /\ op' = Call("all_word_morphemes", word, language, NoneArg, <<>>, None, <<>>)
          /\ morphemes' = <<>>
          /\ todo' = {word}
    /\ pre' = wiktionary_entries
    /\ out' = NoOut
    /\ UNCHANGED <<wiktionary_entries, web, lexicon, stack, table>>

\* lines 630-637: one pass of the loop; todo.pop() takes any word of the set
LoopPass ==
    /\ InLoop
    /\ todo # {}
    /\ \E curr_word \in todo :
          \E found \in {word_morphemes(wiktionary_entries, curr_word, verify_language(op.language))} :
              /\ morphemes' = loop_body(morphemes, todo \ {curr_word}, curr_word, found).morphemes
              /\ todo' = loop_body(morphemes, todo \ {curr_word}, curr_word, found).todo
    /\ UNCHANGED <<wiktionary_entries, web, lexicon, op, pre, out, stack, table>>

\* line 639: the loop is left and the morphemes are returned in order
LoopExit ==
    /\ InLoop
    /\ todo = {}
    /\ out' = Outcome(Res(wiktionary_entries, Some(morphemes), "none", 0))
    /\ UNCHANGED <<wiktionary_entries, web, lexicon, op, pre, morphemes, todo, stack, table>>

\* recursive_all_word_morphemes has frames on the stack
InRecursion == op.name = "recursive_all_word_morphemes" /\ stack # <<>>

\* lines 604-605: the call from outside
RecursiveAllWordMorphemes ==
    /\ Ready
    /\ \E word \in MorphemeWords, language \in LanguageArgs :
          \E found \in {word_morphemes(wiktionary_entries, word, verify_language(language))} :
              /\ op' = Call("recursive_all_word_morphemes", word, language, NoneArg, <<>>, None, <<>>)
              /\ stack' = <<frame_of(word, found)>>
    /\ pre' = wiktionary_entries
    /\ out' = NoOut
    /\ UNCHANGED <<wiktionary_entries, web, lexicon, morphemes, todo, table>>

\* line 610: the call for the morpheme the loop is at, without a language
RecursiveCall ==
    /\ InRecursion
    /\ ~finished(stack[Len(stack)])
    /\ Len(stack) < RecursionLimit
    /\ \E morpheme \in {stack[Len(stack)].found[1][stack[Len(stack)].i]} :
          \E found \in {word_morphemes(wiktionary_entries, morpheme, verify_language(NoneArg))} :
              stack' = Append(stack, frame_of(morpheme, found))
    /\ UNCHANGED <<wiktionary_entries, web, lexicon, op, pre, out, morphemes, todo, table>>

\* line 610 with the stack of calls at its limit: RuntimeError, maximum
\* recursion depth exceeded, which no frame catches
RecursionError ==
    /\ InRecursion
    /\ ~finished(stack[Len(stack)])
    /\ Len(stack) >= RecursionLimit
    /\ out' = Outcome(Res(wiktionary_entries, None, "RuntimeError", 0))
    /\ stack' = <<>>
    /\ UNCHANGED <<wiktionary_entries, web, lexicon, op, pre, morphemes, todo, table>>

\* line 613: the call on top of the stack returns its submorphemes, to the
\* frame under it or to the caller
RecursiveReturn ==
    /\ InRecursion
    /\ finished(stack[Len(stack)])
    /\ IF Len(stack) = 1
       THEN /\ out' = Outcome(Res(wiktionary_entries, Some(stack[1].submorphemes), "none", 0))
            /\ stack' = <<>>
       ELSE /\ out' = out
            /\ stack' = [SubSeq(stack, 1, Len(stack) - 1) EXCEPT
                            ![Len(stack) - 1] = resumed(@, stack[Len(stack)].submorphemes)]
    /\ UNCHANGED <<wiktionary_entries, web, lexicon, op, pre, morphemes, todo, table>>

\* the lookups: what they return and the store they leave
LookupWiktionaryEntry ==
    /\ Ready
    /\ \E word \in MorphemeWords, language \in LanguageArgs :
          Done(Call("lookup_wiktionary_entry", word, language, NoneArg, <<>>, None, <<>>),
               Res(looked_up(wiktionary_entries, <<word>>),
                   lookup_wiktionary_entry(wiktionary_entries, word, language), "none", 0))

LookupWiktionarySubentry ==
    /\ Ready
    /\ \E word \in MorphemeWords, language \in {NoneArg} \cup Languages,
          heading \in {NoneArg, "Etymology", "Noun"} :
          Done(Call("lookup_wiktionary_subentry", word, language, heading, <<>>, None, <<>>),
               Res(looked_up(wiktionary_entries, <<word>>),
                   lookup_wiktionary_subentry(wiktionary_entries, word, language, heading),
                   "none", 0))

LookupWordInflections ==
    /\ Ready
    /\ \E word \in MorphemeWords, language \in Languages :
          Done(Call("lookup_word_inflections", word, language, NoneArg, <<>>, None, <<>>),
               Res(looked_up(wiktionary_entries, <<word>>),
                   lookup_word_inflections(wiktionary_entries, word, language), "none", 0))

LookupWordEtymology ==
    /\ Ready
    /\ \E word \in MorphemeWords, language \in LanguageArgs :
          Done(Call("lookup_word_etymology", word, language, NoneArg, <<>>, None, <<>>),
               Res(looked_up(wiktionary_entries, <<word>>),
                   lookup_word_etymology(wiktionary_entries, word, language), "none", 0))

EntryWord ==
    /\ Ready
    /\ \E word \in MorphemeWords \cup {w_Driven}, language \in LanguageArgs :
          Done(Call("entry_word", word, language, NoneArg, <<>>, None, <<>>),
               Res(looked_up(wiktionary_entries, nuwords_tried(wiktionary_entries, word, language)),
                   Some(entry_word(wiktionary_entries, word, language)), "none", 0))

WordMorphemes ==
    /\ Ready
    /\ \E word \in MorphemeWords, language \in LanguageArgs :
          Done(Call("word_morphemes", word, language, NoneArg, <<>>, None, <<>>),
               Res(looked_up(wiktionary_entries,
                             nuwords_tried(wiktionary_entries, word, language)
                                 \o <<entry_word(wiktionary_entries, word, language)>>),
                   word_morphemes(wiktionary_entries, word, language), "none", 0))

\* a call of a WiktionaryTable method on a coordinate of the grid
TableCall(name, coord) == [name |-> name, coord |-> coord]

\* what a WiktionaryTable method returned
Returns(value) == Res(wiktionary_entries, Some(value), "none", 0)

ParseTable ==
    /\ Ready
    /\ Done(TableCall("parse_table", <<>>),
            Returns(parse_table(WiktionaryTable(table)))
                @@ [placed  |-> parse_table_run(WiktionaryTable(table)).placed,
                    skipped |-> parse_table_run(WiktionaryTable(table)).skipped])

ParseDeclension ==
    /\ Ready
    /\ Done(TableCall("parse_declension", <<>>),
            Returns(parse_declension(WiktionaryTable(table))))

CellRows ==
    /\ Ready
    /\ \E coord \in DOMAIN parse_table(WiktionaryTable(table)) :
          Done(TableCall("cell_rows", coord),
               Returns(cell_rows(WiktionaryTable(table), coord,
                                 parse_table(WiktionaryTable(table)))))

CellCols ==
    /\ Ready
    /\ \E coord \in DOMAIN parse_table(WiktionaryTable(table)) :
          Done(TableCall("cell_cols", coord),
               Returns(cell_cols(WiktionaryTable(table), coord,
                                 parse_table(WiktionaryTable(table)))))

\* the caller takes the result and is ready for its next call
Return ==
    /\ ~Ready
    /\ ~InLoop
    /\ ~InRecursion
    /\ op' = Idle
    /\ pre' = wiktionary_entries
    /\ out' = NoOut
    /\ morphemes' = <<>>
    /\ todo' = {}
    /\ UNCHANGED <<wiktionary_entries, web, lexicon, stack, table>>

Next ==
    \/ EditWiktionaryEntry
    \/ AddWiktionaryEntry
    \/ FindWiktionaryEntry
    \/ Return

Spec == Init /\ [][Next]_vars

LemmaNext ==
    \/ WordLemmas
    \/ Lemmatize
    \/ Return

LemmaSpec == LemmaInit /\ [][LemmaNext]_vars

QueryNext ==
    \/ WordLemmas
    \/ WordPoses
    \/ WordIpas
    \/ FindWiktionarySubentry
    \/ FindStemwords
    \/ FindHeadwords
    \/ Return

QuerySpec == QueryInit /\ [][QueryNext]_vars

MorphemeNext ==
    \/ AllWordMorphemes
    \/ LoopPass
    \/ LoopExit
    \/ RecursiveAllWordMorphemes
    \/ RecursiveCall
    \/ RecursionError
    \/ RecursiveReturn
    \/ LookupWiktionaryEntry
    \/ LookupWiktionarySubentry
    \/ LookupWordInflections
    \/ LookupWordEtymology
    \/ EntryWord
    \/ WordMorphemes
    \/ Return

MorphemeSpec == MorphemeInit /\ [][MorphemeNext]_vars

\* the thread that runs all_word_morphemes goes on running it
LiveMorphemeSpec ==
    /\ MorphemeSpec
    /\ WF_vars(LoopPass) /\ WF_vars(LoopExit)
    /\ WF_vars(RecursiveCall) /\ WF_vars(RecursionError) /\ WF_vars(RecursiveReturn)

TableNext ==
    \/ ParseTable
    \/ ParseDeclension
    \/ CellRows
    \/ CellCols
    \/ Return

TableSpec == TableInit /\ [][TableNext]_vars

TypeOK == op.name \in {"idle", "edit_wiktionary_entry", "add_wiktionary_entry",
                       "find_wiktionary_entry", "word_lemmas", "lemmatize",
                       "word_poses", "word_ipas", "find_wiktionary_subentry",
                       "find_stemwords", "find_headwords",
                       "all_word_morphemes", "parse_table", "parse_declension",
                       "cell_rows", "cell_cols",
                       "recursive_all_word_morphemes", "lookup_wiktionary_entry",
                       "lookup_wiktionary_subentry", "lookup_word_inflections",
                       "lookup_word_etymology", "entry_word", "word_morphemes"}

----------------------------------------------------------------------------
(* Properties of the store (specification Spec) *)

Edited == op.name = "edit_wiktionary_entry"
Lang   == verify_language(op.language)

HasTriple(S, word, language, heading) ==
    Has(S, word) /\ Has(S[word], language) /\ Has(S[word][language], heading)

NoDuplicates(seq) == \A i, j \in 1..Len(seq) : seq[i] = seq[j] => i = j

\* the index of the first occurrence of item in seq
FirstIndex(seq, item) == CHOOSE i \in 1..Len(seq) : seq[i] = item /\ \A j \in 1..(i-1) : seq[j] # item

\* C1: merge idempotence. After edit_wiktionary_entry(word, language, heading,
\* content), the same call again leaves the store exactly as it is.
C1_MergeIdempotent ==
    Edited =>
        edit_wiktionary_entry(wiktionary_entries, op.word, op.language, op.heading,
                              op.content).s = wiktionary_entries

\* a merge that added items to a heading which already held some
C1_Witness ==
    /\ Edited /\ out.e = "none"
    /\ HasTriple(pre, op.word, Lang, op.heading)
    /\ pre[op.word][Lang][op.heading] # <<>>
    /\ Len(wiktionary_entries[op.word][Lang][op.heading]) > Len(pre[op.word][Lang][op.heading])
    /\ \E i \in 1..Len(op.content) : op.content[i] \in Range(pre[op.word][Lang][op.heading])

\* C2: a merge into an existing heading keeps the old content in its old
\* order and appends the items of content that were not present, in the
\* order in which content first names them, each exactly once.
C2_MergeAppendsNewItems ==
    (Edited /\ HasTriple(pre, op.word, Lang, op.heading)) =>
        LET old   == pre[op.word][Lang][op.heading]
            new   == wiktionary_entries[op.word][Lang][op.heading]
            added == SubSeq(new, Len(old) + 1, Len(new))
        IN  /\ out.e = "none"
            /\ Len(new) >= Len(old)
            /\ SubSeq(new, 1, Len(old)) = old
            /\ NoDuplicates(new)
            /\ Range(added) = Range(op.content) \ Range(old)
            /\ \A i, j \in 1..Len(added) :
                   i < j => FirstIndex(op.content, added[i]) < FirstIndex(op.content, added[j])

\* [felinus] merged with [felinus, catus] gives [felinus, catus]
C2_Witness ==
    /\ Edited
    /\ HasTriple(pre, op.word, Lang, op.heading)
    /\ pre[op.word][Lang][op.heading] = <<w_felinus>>
    /\ op.content = <<w_felinus, w_catus>>
    /\ wiktionary_entries[op.word][Lang][op.heading] = <<w_felinus, w_catus>>

\* C3: a merge into a (word, language, heading) that is not in the store
\* creates it with the merged content and raises nothing.
C3_MergeCreatesTriple ==
    (Edited /\ ~HasTriple(pre, op.word, Lang, op.heading)) =>
        /\ out.e = "none"
        /\ HasTriple(wiktionary_entries, op.word, Lang, op.heading)
        /\ wiktionary_entries[op.word][Lang][op.heading] = OrderedSet(op.content)

\* every word, language, heading and content item of store S is in store T
Within(S, T) ==
    \A word \in DOMAIN S :
        /\ Has(T, word)
        /\ \A language \in DOMAIN S[word] :
               /\ Has(T[word], language)
               /\ \A heading \in DOMAIN S[word][language] :
                      /\ Has(T[word][language], heading)
                      /\ Range(S[word][language][heading]) \subseteq Range(T[word][language][heading])

\* C4: the store only grows. Whatever add_wiktionary_entry,
\* find_wiktionary_entry and edit_wiktionary_entry are called, nothing that
\* was in the store before a call is missing after it.
C4_StoreOnlyGrows == Within(pre, wiktionary_entries)

----------------------------------------------------------------------------
(* Properties of the lemma cascade (specification LemmaSpec) *)

Queried == op.name \in {"word_lemmas", "lemmatize"}

\* the spelling under which word_lemmas looks the word up
Nuword == entry_word(pre, op.word, Lang)

\* the parts of speech the call allows
Allowed == IF IsNone(op.poses) THEN PARTS_OF_SPEECH ELSE op.poses[1]

\* the entry of the word after the call: the stored one, or the page fetched
FinalEntry ==
    IF Has(wiktionary_entries, Nuword) /\ Has(wiktionary_entries[Nuword], Lang)
    THEN wiktionary_entries[Nuword][Lang] ELSE EmptyDict

AllowedHeadings == {h \in DOMAIN FinalEntry : h \in Allowed}

\* C5 as claimed: head words are the lemmas (second elements) of the first pairs
C5_HeadwordsAreSecondElements ==
    (Queried /\ out.e = "none" /\ ~IsNone(out.headwords)) =>
        Range(out.headwords[1]) =
            {FinalEntry[h][1][2][1] :
                h \in {g \in AllowedHeadings : FinalEntry[g] # <<>> /\ ~IsNone(FinalEntry[g][1][2])}}

\* C5, amended: when the head-word branch is reached, find_headwords collects
\* the first element (the head text) of the first definition pair of every
\* allowed part-of-speech heading of the entry that has a pair, and nothing else.
C5_HeadwordsAreFirstElements ==
    (Queried /\ out.e = "none" /\ ~IsNone(out.headwords)) =>
        LET headings == {h \in AllowedHeadings : FinalEntry[h] # <<>>}
        IN  /\ Range(out.headwords[1]) = {FinalEntry[h][1][1] : h \in headings}
            /\ Len(out.headwords[1]) = Cardinality(headings)

\* the head-word branch returned the head text of a pair that has no lemma
C5_Witness ==
    /\ Queried /\ out.e = "none" /\ out.branch = "headwords"
    /\ out.headwords = Some(<<w_driven>>)
    /\ FinalEntry = Dict1("Verb", pos_driven)

\* the places <<heading, i>> of the entry that hold a stem word
StemPlaces ==
    UNION {{<<h, i>> : i \in {j \in 2..Len(FinalEntry[h]) : ~IsNone(FinalEntry[h][j][2])}} :
              h \in AllowedHeadings}

C7_DeclensionGivesWordOnly ==
    (op.name = "word_lemmas" /\ Len(op.word) # 0 /\ HasTriple(pre, op.word, Lang, "Declension")) =>
        /\ out.e = "none"
        /\ out.lemmas = <<op.word>>
        /\ IsNone(out.stemwords) /\ IsNone(out.headwords)
        /\ Range(out.r[1]) \subseteq {op.word}

\* the word has a Declension and a stem word, and only the word is returned
C7_Witness ==
    /\ op.name = "word_lemmas" /\ op.word = w_driven
    /\ HasTriple(pre, w_driven, Lang, "Declension")
    /\ HasTriple(pre, w_driven, Lang, "Verb")
    /\ Stems(pre[w_driven][Lang]["Verb"]) # <<>>
    /\ out.r = Some(<<w_driven>>)

FirstOrWord(lemmas) ==
    /\ out.e = lemmas.e
    /\ out.e = "none" =>
           out.r = IF lemmas.r[1] = <<>> THEN Some(op.word) ELSE Some(lemmas.r[1][1])

\* C10: identity fallback. lemmatize returns the first lemma of word_lemmas,
\* or the word it was given, unchanged, when word_lemmas returns no lemma.
C10_LemmatizeFallsBackOnWord ==
    op.name = "lemmatize" =>
        FirstOrWord(word_lemmas(pre, web, lexicon, op.word, op.language, op.poses, op.order))

\* the word is stored under another spelling, no candidate passed, and the
\* word came back as it was given
C10_Witness ==
    /\ op.name = "lemmatize" /\ out.e = "none"
    /\ Nuword # op.word
    /\ out.lemmas # <<>>
    /\ out.r = Some(op.word)

\* C26: within one word_lemmas call for a word that has no stored entry
\* and whose page is not found, add_wiktionary_entry is invoked at most once
C26_NoRetryAfterNotFound ==
    (/\ op.name = "word_lemmas"
     /\ Len(op.word) # 0
     /\ ~Has(pre, Nuword)
     /\ WiktionaryPage(web, Nuword, Lang) = EmptyDict) =>
        out.n <= 1

----------------------------------------------------------------------------
(* Properties of the queries (specification QuerySpec) *)

QueryNames == {"word_lemmas", "word_poses", "word_ipas", "find_wiktionary_subentry",
               "find_stemwords", "find_headwords"}

\* C11: NotFound is never an exception: every query (word_lemmas,
\* word_poses, word_ipas, find_wiktionary_subentry, find_headwords,
\* find_stemwords) returns and raises nothing, whatever the word, the
\* language and the heading, also when there is no data for them.
C11_NotFoundNeverRaises ==
    op.name \in QueryNames => out.e = "none"

----------------------------------------------------------------------------
(* Properties of the morphemes (specification LiveMorphemeSpec) *)

Returned == op.name = "all_word_morphemes" /\ ~IsNone(out.r)

\* a and b list each other, and nothing else, as their etymology
TwoCycle(S, a, b) ==
    /\ a # b
    /\ lookup_word_etymology(S, a, Lang) = Some(<<b>>)
    /\ lookup_word_etymology(S, b, Lang) = Some(<<a>>)

\* C12: morpheme termination: every call of all_word_morphemes leaves its
\* loop and returns, on every store, also one whose etymologies have a
\* cycle; started from a on a two-word cycle a -> b -> a it returns exactly
\* the set {a, b}.
C12_MorphemesTerminate ==
    /\ InLoop ~> Returned
    /\ [](\A a, b \in MorphemeWords :
             Returned /\ op.word = a /\ TwoCycle(wiktionary_entries, a, b)
                 => Range(out.r[1]) = {a, b})

C12_Witness ==
    /\ Returned
    /\ op.word = w_cat
    /\ TwoCycle(wiktionary_entries, w_cat, w_felinus)
    /\ Range(out.r[1]) = {w_cat, w_felinus}

\* a token that the loop can expand: not empty, without punctuation
Plain(token) == Len(token) # 0 /\ ~contains_punct(token)

\* the plain tokens that word_morphemes lists for token in S
Links(S, language, token) ==
    IF IsNone(word_morphemes(S, token, language)) THEN {}
    ELSE {t \in Range(word_morphemes(S, token, language)[1]) : Plain(t)}

\* the plain tokens reachable from those of tokens through any number of
\* stored Etymology links
RECURSIVE Reachable(_, _, _)
Reachable(S, language, tokens) ==
    IF UNION {Links(S, language, token) : token \in tokens} \subseteq tokens THEN tokens
    ELSE Reachable(S, language, tokens \cup UNION {Links(S, language, token) : token \in tokens})

\* C21: all_word_morphemes(word) returns every punctuation-free token
\* reachable from word through any number of stored Etymology links
C21_MorphemesTransitive ==
    (Returned /\ Plain(op.word)) =>
        Reachable(wiktionary_entries, Lang, {op.word}) \subseteq Range(out.r[1])

LookupNames ==
    {"lookup_wiktionary_entry", "lookup_wiktionary_subentry", "lookup_word_inflections",
     "lookup_word_etymology", "entry_word", "word_morphemes", "all_word_morphemes"}

C27_LookupsLeaveStore ==
    op.name \in LookupNames => wiktionary_entries = pre

\* a lookup of a word that the store has no key for
C27_Witness ==
    /\ op.name = "word_morphemes"
    /\ ~Has(pre, op.word)
    /\ IsNone(out.r)
    /\ wiktionary_entries = pre

\* C28: recursive_all_word_morphemes avoids cycles: on every store, also
\* one where a word lists itself or two words list each other, the call
\* returns its submorphemes and never runs out of stack
C28_RecursionAvoidsCycles ==
    op.name = "recursive_all_word_morphemes" => out.e = "none"

----------------------------------------------------------------------------
(* WiktionaryTable: properties of the grid and of the declension *)

\* the table object of the session and the value its method returned
TableObject == WiktionaryTable(table)
Returned_value == out.r[1]

\* C13: in the grid returned by parse_table, a cell that was put at origin
\* (r, c) with row-span R and col-span C is the value of every coordinate
\* (r+i, c+j), 0 <= i < R, 0 <= j < C
C13_SpanReplication ==
    op.name = "parse_table" =>
        \A k \in 1..Len(out.placed) :
            \A coord \in Rectangle(out.placed[k].r, out.placed[k].c,
                                   out.placed[k].rowspan, out.placed[k].colspan) :
                /\ out.placed[k].colspan >= 1
                /\ coord \in DOMAIN Returned_value
                /\ Returned_value[coord] = out.placed[k].place

\* C14: every coordinate (row, col) of the grid returned by parse_table has
\* 0 <= row < num_rows and 0 <= col < num_cols
C14_SpanClamping ==
    op.name = "parse_table" =>
        \A coord \in DOMAIN Returned_value :
            /\ 0 <= coord[1] /\ coord[1] < TableObject.num_rows
            /\ 0 <= coord[2] /\ coord[2] < TableObject.num_cols

\* C15: a table with zero rows yields an empty grid from parse_table and an
\* empty declension from parse_declension, and no error
C15_ZeroRows ==
    (Len(table) = 0 /\ op.name \in {"parse_table", "parse_declension"}) =>
        /\ out.e = "none"
        /\ out.r = Some(EmptyDict)

C15_Witness ==
    /\ Len(table) = 0
    /\ op.name = "parse_declension"
    /\ out.r = Some(EmptyDict)


\* the columns and the rows of the grid that the cell at place lies in
Columns(table_dict, place) ==
    {coord[2] : coord \in {x \in DOMAIN table_dict : table_dict[x] = place}}
Rows(table_dict, place) ==
    {coord[1] : coord \in {x \in DOMAIN table_dict : table_dict[x] = place}}
Places(table_dict) == {table_dict[coord] : coord \in DOMAIN table_dict}

\* C16: every label of cell_rows((r, c)) is the text of a cell of the grid
\* that lies in no column >= c, and every label of cell_cols((r, c)) is the
\* text of a cell of the grid that lies in no row >= r
C16_LabelPathMonotonicity ==
    /\ op.name = "cell_rows" =>
          \A label \in Range(Returned_value) :
              \E place \in Places(parse_table(TableObject)) :
                  /\ cell_text(CellAt(TableObject, place)) = label
                  /\ \A col \in Columns(parse_table(TableObject), place) : col < op.coord[2]
    /\ op.name = "cell_cols" =>
          \A label \in Range(Returned_value) :
              \E place \in Places(parse_table(TableObject)) :
                  /\ cell_text(CellAt(TableObject, place)) = label
                  /\ \A row \in Rows(parse_table(TableObject), place) : row < op.coord[1]

\* the cells of a plain labelled table
Unspanned(cell) ==
    /\ cell_rowspan(cell) = 1 /\ cell_colspan(cell) = 1
    /\ cell.spans = <<>> /\ IsNone(cell.attr_text) /\ ~cell.p
LabelCell(cell) ==
    /\ Unspanned(cell)
    /\ is_header(cell) /\ ~is_content(cell)
    /\ Len(cell.text) > 0
    /\ Range(cell.text) \cap {emdash, newline} = {}
FormCell(cell) ==
    /\ Unspanned(cell)
    /\ is_content(cell) /\ ~is_header(cell)
    /\ Len(cell.text) > 0
    /\ Range(cell.text) \cap {emdash, newline, ",", "/", " "} = {}

\* one header row of column labels, the first cell empty, then rows that
\* begin with one row label and go on with cells of one form each; no label
\* occurs twice
IsLabelledTable(tbl) ==
    /\ Len(tbl) >= 2
    /\ \A r \in 1..Len(tbl) : ~tbl[r].vsHide /\ Len(tbl[r].cells) = Len(tbl[1].cells)
    /\ Len(tbl[1].cells) >= 2
    /\ Unspanned(tbl[1].cells[1]) /\ tbl[1].cells[1].text = <<>>
    /\ \A c \in 2..Len(tbl[1].cells) : LabelCell(tbl[1].cells[c])
    /\ \A r \in 2..Len(tbl) :
          /\ LabelCell(tbl[r].cells[1])
          /\ \A c \in 2..Len(tbl[1].cells) : FormCell(tbl[r].cells[c])
    /\ \A c, d \in 2..Len(tbl[1].cells) :
          c # d => Lower(tbl[1].cells[c].text) # Lower(tbl[1].cells[d].text)
    /\ \A r, q \in 2..Len(tbl) :
          r # q => Lower(tbl[r].cells[1].text) # Lower(tbl[q].cells[1].text)

\* the key of a label: lowercased, an underscore for each space
Underscored(text) == [i \in 1..Len(text) |-> IF text[i] = " " THEN "_" ELSE text[i]]
KeyOf(text) == Underscored(Lower(text))

\* the declension of a labelled table under the keys that Key gives the labels:
\* declension[key of column c][key of row r] = [form at (r, c)], nothing else
DeclensionUnder(tbl, Key(_)) ==
    [col_text \in {Key(tbl[1].cells[c].text) : c \in 2..Len(tbl[1].cells)} |->
        [row_text \in {Key(tbl[r].cells[1].text) : r \in 2..Len(tbl)} |->
            <<tbl[CHOOSE r \in 2..Len(tbl) : Key(tbl[r].cells[1].text) = row_text]
                 .cells[CHOOSE c \in 2..Len(tbl[1].cells) :
                            Key(tbl[1].cells[c].text) = col_text].text>>]]

C18_PairsHoldForms ==
    op.name = "parse_declension" =>
        \A col_text \in DOMAIN Returned_value :
            \A row_text \in DOMAIN Returned_value[col_text] :
                \E form \in Range(Returned_value[col_text][row_text]) : Len(form) > 0

\* C19: the mapping returned by parse_declension has an empty row-path key
\* only when the number of rows minus the number of columns is 1
C19_EmptyRowPath ==
    op.name = "parse_declension" =>
        ((\E col_text \in DOMAIN Returned_value : <<>> \in DOMAIN Returned_value[col_text])
            => TableObject.num_rows - TableObject.num_cols = 1)

C19_Witness ==
    /\ op.name = "parse_declension"
    /\ TableObject.num_rows - TableObject.num_cols = 1
    /\ \E col_text \in DOMAIN Returned_value : <<>> \in DOMAIN Returned_value[col_text]


----------------------------------------------------------------------------
(* Properties of the store: two merges in either order *)

\* the set of content items under (word, language, heading) in S
ItemsUnder(S, word, language, heading) ==
    IF HasTriple(S, word, language, heading) THEN Range(S[word][language][heading]) ELSE {}

\* the store after edit_wiktionary_entry with first, then with second, from S
MergedTwice(S, word, language, heading, first, second) ==
    edit_wiktionary_entry(edit_wiktionary_entry(S, word, language, heading, first).s,
                          word, language, heading, second).s

\* C20: from the same store, merging content A and then content B into one
\* (word, language, heading) and merging B and then A leave the same set of
\* content items under that heading
C20_MergeCommutes ==
    Edited =>
        \A B \in Contents :
            ItemsUnder(edit_wiktionary_entry(wiktionary_entries, op.word, op.language,
                                             op.heading, B).s,
                       op.word, Lang, op.heading)
            = ItemsUnder(MergedTwice(pre, op.word, op.language, op.heading, B, op.content),
                         op.word, Lang, op.heading)

\* a merge of A after which a merge of B gives another list than B and then
\* A would have given, with the same items
C20_Witness ==
    /\ Edited /\ out.e = "none"
    /\ \E B \in Contents :
          /\ Range(B) \ Range(op.content) # {}
          /\ Range(op.content) \ Range(B) # {}
          /\ MergedTwice(pre, op.word, op.language, op.heading, op.content, B)
                 [op.word][Lang][op.heading]
             # MergedTwice(pre, op.word, op.language, op.heading, B, op.content)
                 [op.word][Lang][op.heading]
          /\ ItemsUnder(MergedTwice(pre, op.word, op.language, op.heading, op.content, B),
                        op.word, Lang, op.heading)
             = ItemsUnder(MergedTwice(pre, op.word, op.language, op.heading, B, op.content),
                          op.word, Lang, op.heading)

\* the places <<i, j>> of all cells of the rows that parse_table reads
CellPlaces(T) ==
    UNION {{<<i, j>> : j \in 1..Len(T.rows[i].cells)} : i \in 1..T.num_rows}

\* a cell that carries neither text nor a link
Blank(cell) == Len(cell_text(cell)) = 0 /\ IsNone(cell.a)

\* C23: parse_table passes over a cell as an empty column only when its
\* row-span is at least the number of rows and it carries no text and no
\* link; a cell with text lies in the grid, every cell of a table of one
\* row included
C23_SkippedCellsAreBlank ==
    op.name = "parse_table" =>
        /\ \A place \in out.skipped :
              /\ cell_rowspan(CellAt(TableObject, place)) >= TableObject.num_rows
              /\ Blank(CellAt(TableObject, place))
        /\ \A place \in CellPlaces(TableObject) :
              (Len(cell_text(CellAt(TableObject, place))) # 0 /\ TableObject.num_rows = 1)
                  => place \in Places(Returned_value)

\* the columns below that of coord at which the grid has a cell in its row
ScannedColumns(table_dict, coord) ==
    {x \in 0..(coord[2] - 1) : <<coord[1], x>> \in DOMAIN table_dict}

\* the cell of the grid at column x of the row of coord
RowCell(T, table_dict, coord, x) == CellAt(T, table_dict[<<coord[1], x>>])

\* the columns of the row headers that may give a label, when a row-span of
\* at most limit is asked for
LabelColumns(T, table_dict, coord, limit) ==
    {x \in ScannedColumns(table_dict, coord) :
        /\ is_header(RowCell(T, table_dict, coord, x))
        /\ cell_rowspan(RowCell(T, table_dict, coord, x)) <= limit
        /\ Len(cell_text(RowCell(T, table_dict, coord, x))) # 0}

\* the columns of the cells that are no headers and have a label column on
\* their right: the scan ends on the nearest of them
EndColumns(T, table_dict, coord, limit) ==
    {x \in ScannedColumns(table_dict, coord) :
        /\ ~is_header(RowCell(T, table_dict, coord, x))
        /\ \E y \in LabelColumns(T, table_dict, coord, limit) : y > x}

\* the label columns of the run nearest to coord
RunColumns(T, table_dict, coord, limit) ==
    {x \in LabelColumns(T, table_dict, coord, limit) :
        \A y \in EndColumns(T, table_dict, coord, limit) : y < x}

\* path lists the texts of the cells at the columns run, each once, a label
\* before another when its nearest cell lies further from coord
IsRunPath(T, table_dict, coord, run, path) ==
    /\ Range(path) = {cell_text(RowCell(T, table_dict, coord, x)) : x \in run}
    /\ \A i, j \in 1..Len(path) :
          i < j => \E y \in run :
                      /\ cell_text(RowCell(T, table_dict, coord, y)) = path[j]
                      /\ \A x \in run :
                            cell_text(RowCell(T, table_dict, coord, x)) = path[i] => x < y

\* C24 as stated: cell_rows((r, c)) is the run of row headers nearest to
\* column c, the most distant label first, a header giving a label when its
\* row-span does not exceed the number of rows of the grid, its text is not
\* empty and not collected yet; no label comes from beyond the cell that is
\* no header and ended the run
C24_RowPathRunByRowCount ==
    op.name = "cell_rows" =>
        IsRunPath(TableObject, parse_table(TableObject), op.coord,
                  RunColumns(TableObject, parse_table(TableObject), op.coord,
                             LastRow(parse_table(TableObject)) + 1),
                  Returned_value)

\* C24 amended: the same, a header giving a label when its row-span does
\* not exceed the index of the last row of the grid, that is, when it is
\* less than the number of rows of the grid
C24_RowPathRunByLastRow ==
    op.name = "cell_rows" =>
        IsRunPath(TableObject, parse_table(TableObject), op.coord,
                  RunColumns(TableObject, parse_table(TableObject), op.coord,
                             LastRow(parse_table(TableObject))),
                  Returned_value)

\* a run of one label that a form cell ended, with a further header beyond
\* that cell
C24_Witness ==
    /\ op.name = "cell_rows"
    /\ Len(Returned_value) = 1
    /\ EndColumns(TableObject, parse_table(TableObject), op.coord,
                  LastRow(parse_table(TableObject))) # {}
    /\ \E x \in LabelColumns(TableObject, parse_table(TableObject), op.coord,
                              LastRow(parse_table(TableObject))) :
          x \notin RunColumns(TableObject, parse_table(TableObject), op.coord,
                              LastRow(parse_table(TableObject)))

\* C25: no label occurs twice in the path that cell_cols returns
C25_ColPathWithoutRepeats ==
    op.name = "cell_cols" =>
        \A i, j \in 1..Len(Returned_value) :
            Returned_value[i] = Returned_value[j] => i = j

\* C29: no cell of the grid that cell_rows and cell_cols read is a header
\* for is_header and content for is_content
C29_ClassificationExclusive ==
    op.name \in {"cell_rows", "cell_cols"} =>
        \A place \in Places(parse_table(TableObject)) :
            ~(is_header(CellAt(TableObject, place)) /\ is_content(CellAt(TableObject, place)))

\* the places of the cells that parse_table put into the grid
PlacedCells == {out.placed[k].place : k \in 1..Len(out.placed)}

\* C30: parse_table puts the cell at place <<i, j>>, a cell of row i of the
\* markup, with its origin in row i - 1 of the grid, and every cell of
\* every row is put into the grid or passed over as an empty column
C30_RowOwnership ==
    op.name = "parse_table" =>
        /\ \A k \in 1..Len(out.placed) : out.placed[k].r = out.placed[k].place[1] - 1
        /\ \A place \in CellPlaces(TableObject) : place \in PlacedCells \cup out.skipped

====
